---- MODULE Spec2Model ----
(***************************************************************************)
(* Credential pool (core/api_manager.py, AsyncAPIKeyManager), the retrying *)
(* executor (core/tts_generator.py, AsyncTTSGenerator.generate_chunk) and  *)
(* the batch driver (gui/main_window.py) of the Gemini TTS application.    *)
(*                                                                         *)
(* Time is the wall clock in ticks; a day has DayLen ticks and midnight is *)
(* a multiple of DayLen.  An ISO-8601 string is modelled by the pair       *)
(* <<date, time of day>> and None (or the empty string) by <<>>.           *)
(***************************************************************************)
EXTENDS Integers, Sequences, FiniteSets, TLC

\* ---------------------------------------------------------------- bounds
DayLen == 2
MaxClock == 2
MaxErrors == 1
RpdFlash == 2
RpdPro == 1
NumChunks == 2
MaxParallel == 2
DelayFlash == 1
DelayPro == 2
MaxClockUnit == 4
MaxCount == 2
MaxDuration == 1
MaxTotal == 50

\* the last clock tick at which a batch run to its end starts
MaxClockRun == 0
Epoch == 4

\* ------------------------------------------------------- config/constants
MAX_RETRIES == 2

MODELS == {"flash", "pro"}

LIMITS ==
  [m \in MODELS |-> IF m = "flash"
                    THEN [rpd |-> RpdFlash, delay |-> DelayFlash]
                    ELSE [rpd |-> RpdPro, delay |-> DelayPro]]

RETRY_DELAYS == <<1, 2>>

\* ------------------------------------------------------------ time, ISO
NoTime == <<>>

Isoformat(dt) == <<dt \div DayLen, dt % DayLen>>

FromIsoformat(s) == s[1] * DayLen + s[2]

\* time.time() at clock tick now: seconds since the epoch
TimeTime(now) == Epoch + now

\* datetime.combine(now.date() + timedelta(days=1), datetime.min.time())
TomorrowMidnight(now) == ((now \div DayLen) + 1) * DayLen

\* ------------------------------------------------------------ credentials
Keys == {"k1", "k2"}

NoneKey == ""

NewKeyRecord ==
  [requests_today |-> 0, reset_time |-> NoTime, last_request |-> 0,
   exhausted |-> FALSE, error_count |-> 0]

\* ------------------------------------------------- the credential source
\* A line is a sequence of tokens: " " is white space, "#" the comment
\* sign, any other token the body of an identifier.
Strip(line) ==
  LET idx == {i \in 1..Len(line) : line[i] # " "}
  IN IF idx = {} THEN <<>>
     ELSE LET lo == CHOOSE i \in idx : \A j \in idx : i <= j
              hi == CHOOSE i \in idx : \A j \in idx : i >= j
          IN SubSeq(line, lo, hi)

StartsWithHash(key) == Len(key) > 0 /\ key[1] = "#"

\* the lines of a file that name a credential, in file order
RECURSIVE ParseKeys(_)
ParseKeys(lines) ==
  IF lines = <<>> THEN <<>>
  ELSE LET key == Strip(Head(lines))
       IN IF key # <<>> /\ ~StartsWithHash(key)
          THEN <<key[1]>> \o ParseKeys(Tail(lines))
          ELSE ParseKeys(Tail(lines))

RECURSIVE InsertKeys(_, _)
InsertKeysOverwrite(kd, keys) ==
  IF keys = <<>> THEN kd
  ELSE InsertKeys((Head(keys) :> NewKeyRecord) @@ kd, Tail(keys))

InsertKeys(kd, keys) ==
  IF keys = <<>> THEN kd
  ELSE IF Head(keys) \notin DOMAIN kd
       THEN InsertKeys(kd @@ (Head(keys) :> NewKeyRecord), Tail(keys))
       ELSE InsertKeys(kd, Tail(keys))

LoadKeysFromFile(kd, file) ==
  IF ~file.exists THEN [kd |-> kd, ret |-> <<>>]
  ELSE LET keys == ParseKeys(file.lines)
       IN [kd |-> InsertKeys(kd, keys), ret |-> keys]

\* ------------------------------------------------------- the reset check
ResetDue(r, now) == r.reset_time # NoTime /\ now >= FromIsoformat(r.reset_time)

CheckKeyResetKeepTime(r, now) ==
  IF r.reset_time # NoTime
  THEN IF now >= FromIsoformat(r.reset_time)
       THEN [r EXCEPT !.requests_today = 0, !.exhausted = FALSE,
                      !.error_count = 0]
       ELSE r
  ELSE r

CheckKeyResetAlways(r, now) ==
  IF r.reset_time # NoTime
  THEN [r EXCEPT !.requests_today = 0, !.exhausted = FALSE,
                 !.error_count = 0,
                 !.reset_time = Isoformat(TomorrowMidnight(now))]
  ELSE [r EXCEPT !.reset_time = Isoformat(TomorrowMidnight(now))]

CheckKeyReset(r, now) ==
  IF r.reset_time # NoTime
  THEN IF now >= FromIsoformat(r.reset_time)
       THEN [r EXCEPT !.requests_today = 0, !.exhausted = FALSE,
                      !.error_count = 0,
                      !.reset_time = Isoformat(TomorrowMidnight(now))]
       ELSE r
  ELSE [r EXCEPT !.reset_time = Isoformat(TomorrowMidnight(now))]

CheckAllResets(kd, now) == [k \in DOMAIN kd |-> CheckKeyReset(kd[k], now)]

\* ---------------------------------------------------------- get_best_key
PriorityMostUsed(stats, limit) ==
  <<0 - stats.error_count, stats.requests_today, 0>>

Priority(stats, limit) ==
  <<0 - stats.error_count, limit - stats.requests_today,
    0 - stats.requests_today>>

\* Python's tuple order
TupleLess(p, q) ==
  \/ p[1] < q[1]
  \/ p[1] = q[1] /\ p[2] < q[2]
  \/ p[1] = q[1] /\ p[2] = q[2] /\ p[3] < q[3]

PassesFilterAtLimit(stats, limit) ==
  ~stats.exhausted /\ stats.requests_today <= limit

PassesFilter(stats, limit) ==
  ~stats.exhausted /\ stats.requests_today < limit

\* the loop over keys_list: now2 is the clock read by the reset check that
\* follows the insertion of an unknown key
RECURSIVE ScanKeys(_, _, _, _, _)
ScanKeys(kd, keys_list, limit, now2, available_keys) ==
  IF keys_list = <<>> THEN [kd |-> kd, available_keys |-> available_keys]
  ELSE LET key == Head(keys_list)
           kd1 == IF key \notin DOMAIN kd
                  THEN CheckAllResets(kd @@ (key :> NewKeyRecord), now2)
                  ELSE kd
           stats == kd1[key]
           avail == IF PassesFilter(stats, limit)
                    THEN Append(available_keys,
                                <<key, Priority(stats, limit)>>)
                    ELSE available_keys
       IN ScanKeys(kd1, Tail(keys_list), limit, now2, avail)

\* list.sort(key=lambda x: x[1], reverse=True): stable, descending
RECURSIVE InsertSorted(_, _)
InsertSortedBeforeEquals(sorted, x) ==
  IF sorted = <<>> THEN <<x>>
  ELSE IF ~TupleLess(x[2], Head(sorted)[2])
       THEN <<x>> \o sorted
       ELSE <<Head(sorted)>> \o InsertSorted(Tail(sorted), x)

InsertSorted(sorted, x) ==
  IF sorted = <<>> THEN <<x>>
  ELSE IF TupleLess(Head(sorted)[2], x[2])
       THEN <<x>> \o sorted
       ELSE <<Head(sorted)>> \o InsertSorted(Tail(sorted), x)

RECURSIVE SortAscending(_)
SortAscending(s) ==
  IF s = <<>> THEN <<>>
  ELSE LET rest == SortAscending(SubSeq(s, 1, Len(s) - 1))
           x == s[Len(s)]
           RECURSIVE Ins(_)
           Ins(t) == IF t = <<>> THEN <<x>>
                     ELSE IF TupleLess(x[2], Head(t)[2])
                          THEN <<x>> \o t
                          ELSE <<Head(t)>> \o Ins(Tail(t))
       IN Ins(rest)

RECURSIVE SortReverse(_)
SortReverse(s) ==
  IF s = <<>> THEN <<>>
  ELSE InsertSorted(SortReverse(SubSeq(s, 1, Len(s) - 1)), s[Len(s)])

GetBestKeyPrune(kd, keys_list, model, now, now2) ==
  CHOOSE r \in
    {[kd |-> [k \in DOMAIN scan.kd
                     \cap {keys_list[i] : i \in 1..Len(keys_list)} |->
                scan.kd[k]],
      ret |-> IF scan.available_keys = <<>> THEN NoneKey
              ELSE SortReverse(scan.available_keys)[1][1]] :
     scan \in {ScanKeys(CheckAllResets(kd, now), keys_list,
                        LIMITS[model].rpd, now2, <<>>)}} : TRUE

\* get_best_key: the reset check, the loop over keys_list, the sort and the
\* first of the sorted list; each intermediate value is bound once
GetBestKey(kd, keys_list, model, now, now2) ==
  CHOOSE r \in
    {[kd |-> scan.kd,
      ret |-> IF scan.available_keys = <<>> THEN NoneKey
              ELSE SortReverse(scan.available_keys)[1][1]] :
     scan \in {ScanKeys(CheckAllResets(kd, now), keys_list,
                        LIMITS[model].rpd, now2, <<>>)}} : TRUE

\* ------------------------------------------- record_request, record_error
RecordRequestTwice(kd, key, now) ==
  IF key \in DOMAIN kd
  THEN [kd EXCEPT ![key].requests_today = @ + 2, ![key].last_request = now]
  ELSE kd

RecordRequestNoStamp(kd, key, now) ==
  IF key \in DOMAIN kd
  THEN [kd EXCEPT ![key].requests_today = @ + 1]
  ELSE kd

RecordRequest(kd, key, now) ==
  IF key \in DOMAIN kd
  THEN [kd EXCEPT ![key].requests_today = @ + 1, ![key].last_request = now]
  ELSE kd

RecordErrorNoFlag(kd, key, is_429) ==
  IF key \in DOMAIN kd
  THEN [kd EXCEPT ![key].error_count = @ + 1]
  ELSE kd

RecordErrorOnlyQuota(kd, key, is_429) ==
  IF key \in DOMAIN kd /\ is_429
  THEN [kd EXCEPT ![key].error_count = @ + 1, ![key].exhausted = TRUE]
  ELSE kd

RecordError(kd, key, is_429) ==
  IF key \in DOMAIN kd
  THEN [kd EXCEPT ![key].error_count = @ + 1,
                  ![key].exhausted = IF is_429 THEN TRUE ELSE @]
  ELSE kd

\* -------------------------------------------------------- reset_all_stats
ResetAllStatsKeepExhausted(kd) ==
  [k \in DOMAIN kd |->
     [kd[k] EXCEPT !.requests_today = 0, !.error_count = 0]]

ResetAllStats(kd) ==
  [k \in DOMAIN kd |->
     [kd[k] EXCEPT !.requests_today = 0, !.exhausted = FALSE,
                   !.error_count = 0]]

\* --------------------------------------------------------- get_wait_time
Max(a, b) == IF a >= b THEN a ELSE b

GetWaitTimeSignSlip(kd, key, model, time) ==
  IF key \notin DOMAIN kd THEN 0
  ELSE LET rpm_delay == LIMITS[model].delay
           elapsed == kd[key].last_request - time
       IN Max(0, rpm_delay - elapsed)

GetWaitTime(kd, key, model, time) ==
  IF key \notin DOMAIN kd THEN 0
  ELSE LET rpm_delay == LIMITS[model].delay
           elapsed == time - kd[key].last_request
       IN Max(0, rpm_delay - elapsed)

\* ------------------------------------------------------------ load_stats
LoadStats(file, now) ==
  IF file.exists THEN CheckAllResets(file.data, now) ELSE <<>>

\* ------------------------------------------------------- Python's float
\* A float is an IEEE 754 double: sign (never negative here), exponent e
\* and significand m of MANT_DIG bits, the first of them 1; its value is
\* m[1].m[2]m[3]... * 2^e.  Zero has the empty significand.  Every
\* operation rounds its exact result to the nearest float, ties to even.
MANT_DIG == 53

Only(S) == CHOOSE x \in S : TRUE

FloatZero == [e |-> 0, m |-> <<>>]

Zeros(n) == [i \in 1..n |-> 0]

\* the binary digits of a natural number, the most significant first
RECURSIVE BitsOf(_)
BitsOf(n) == IF n = 0 THEN <<>> ELSE Append(BitsOf(n \div 2), n % 2)

RECURSIVE BitsValue(_)
BitsValue(bits) ==
  IF bits = <<>> THEN 0
  ELSE 2 * BitsValue(SubSeq(bits, 1, Len(bits) - 1)) + bits[Len(bits)]

\* bits + 1; the carry out of the first digit makes the sequence longer
Increment(bits) ==
  LET zeros == {i \in 1..Len(bits) : bits[i] = 0}
  IN IF zeros = {} THEN <<1>> \o Zeros(Len(bits))
     ELSE LET p == CHOOSE i \in zeros : \A j \in zeros : j <= i
          IN [i \in 1..Len(bits) |->
                IF i < p THEN bits[i] ELSE IF i = p THEN 1 ELSE 0]

\* round to nearest, ties to even: sig has MANT_DIG + 1 digits, the last
\* the first digit dropped; sticky says that a later dropped digit is 1
RoundFloat(e, sig, sticky) ==
  LET m == SubSeq(sig, 1, MANT_DIG)
      up == sig[MANT_DIG + 1] = 1 /\ (sticky \/ m[MANT_DIG] = 1)
  IN IF ~up THEN [e |-> e, m |-> m]
     ELSE Only({IF Len(m1) > MANT_DIG
                THEN [e |-> e + 1, m |-> SubSeq(m1, 1, MANT_DIG)]
                ELSE [e |-> e, m |-> m1] : m1 \in {Increment(m)}})

\* float(n) of an int that has at most MANT_DIG digits
FloatOfInt(n) ==
  IF n = 0 THEN FloatZero
  ELSE Only({[e |-> Len(b) - 1, m |-> b \o Zeros(MANT_DIG - Len(b))] :
             b \in {BitsOf(n)}})

\* 2^i modulo t, by repeated squaring
RECURSIVE Pow2Mod(_, _)
Pow2Mod(i, t) ==
  IF i = 0 THEN 1 % t
  ELSE Only({(h * h * (IF i % 2 = 1 THEN 2 ELSE 1)) % t :
             h \in {Pow2Mod(i \div 2, t)}})

\* the first n digits of r / t after the point, r < t, and the remainder
LongDivision(r, t, n) ==
  [bits |-> [i \in 1..n |-> (2 * ((r * Pow2Mod(i - 1, t)) % t)) \div t],
   r |-> (r * Pow2Mod(n, t)) % t]

\* the least z with c * 2^z >= t
RECURSIVE ShiftTo(_, _, _)
ShiftTo(c, t, z) == IF c >= t THEN z ELSE ShiftTo(2 * c, t, z + 1)

RECURSIVE Pow2(_)
Pow2(z) == IF z = 0 THEN 1 ELSE 2 * Pow2(z - 1)

\* c / t of two ints, c >= 0 and t > 0
FloatDivInt(c, t) ==
  IF c = 0 THEN FloatZero
  ELSE Only({LET num == c * Pow2(z)
                 ib == BitsOf(num \div t)
             IN Only({RoundFloat(Len(ib) - 1 - z, ib \o d.bits, d.r # 0) :
                      d \in {LongDivision(num % t, t,
                                          MANT_DIG + 1 - Len(ib))}}) :
             z \in {ShiftTo(c, t, 0)}})

\* the digits lo..hi of bits, times n, plus the carry into digit hi: the
\* digits of the result and the carry out of digit lo
RECURSIVE MulBits(_, _, _, _, _)
MulBits(bits, n, lo, hi, carry) ==
  IF lo = hi
  THEN Only({[bits |-> <<v % 2>>, carry |-> v \div 2] :
             v \in {bits[lo] * n + carry}})
  ELSE Only({Only({[bits |-> left.bits \o right.bits,
                    carry |-> left.carry] :
                   left \in {MulBits(bits, n, lo, (lo + hi) \div 2,
                                     right.carry)}}) :
             right \in {MulBits(bits, n, (lo + hi) \div 2 + 1, hi, carry)}})

\* x * n of a float and an int n >= 0
FloatMulInt(x, n) ==
  IF x.m = <<>> \/ n = 0 THEN FloatZero
  ELSE Only({LET sig == SubSeq(p, 1, MANT_DIG + 1)
                 sticky == \E i \in (MANT_DIG + 2)..Len(p) : p[i] = 1
             IN RoundFloat(x.e + Len(p) - MANT_DIG - 1, sig, sticky) :
             p \in {Only({BitsOf(r.carry) \o r.bits \o <<0>> :
                         r \in {MulBits(x.m, n, 1, MANT_DIG, 0)}})}})

\* the digits lo..hi of bits, after the remainder r of the digits before
\* them, divided by d: the digits of the quotient and the remainder
RECURSIVE DivBits(_, _, _, _, _)
DivBits(bits, d, lo, hi, r) ==
  IF lo = hi
  THEN Only({[bits |-> <<v \div d>>, r |-> v % d] :
             v \in {2 * r + bits[lo]}})
  ELSE Only({Only({[bits |-> left.bits \o right.bits, r |-> right.r] :
                   right \in {DivBits(bits, d, (lo + hi) \div 2 + 1, hi,
                                      left.r)}}) :
             left \in {DivBits(bits, d, lo, (lo + hi) \div 2, r)}})

\* int(x): the integer part
FloatInt(x) ==
  IF x.m = <<>> \/ x.e < 0 THEN 0 ELSE BitsValue(SubSeq(x.m, 1, x.e + 1))

\* x / d of a float and an int d > 0
FloatDivByInt(x, d) ==
  IF x.m = <<>> THEN FloatZero
  ELSE Only({LET lead == CHOOSE i \in 1..Len(q.bits) : 
                           /\ q.bits[i] = 1
                           /\ \A j \in 1..(i - 1) : q.bits[j] = 0
                 sig == SubSeq(q.bits, lead, lead + MANT_DIG)
                 sticky == \/ q.r # 0
                           \/ \E i \in (lead + MANT_DIG + 1)..Len(q.bits) :
                                q.bits[i] = 1
             IN RoundFloat(x.e - (lead - 1), sig, sticky) :
             q \in {DivBits(x.m \o Zeros(Len(BitsOf(d)) + 1), d, 1,
                            MANT_DIG + Len(BitsOf(d)) + 1, 0)}})

\* x % d of a float and an int d > 0: fmod is exact
FloatModInt(x, d) ==
  IF x.m = <<>> \/ x.e < 0 THEN x
  ELSE Only({LET digits == ip \o SubSeq(x.m, x.e + 2, MANT_DIG)
                 ones == {i \in 1..Len(digits) : digits[i] = 1}
             IN IF ones = {} THEN FloatZero
                ELSE LET lead == CHOOSE i \in ones : \A j \in ones : i <= j
                         m == SubSeq(digits, lead, Len(digits))
                     IN [e |-> Len(ip) - lead,
                         m |-> m \o Zeros(MANT_DIG - Len(m))] :
             ip \in {BitsOf(BitsValue(SubSeq(x.m, 1, x.e + 1)) % d)}})

\* ------------------------------------------------------- ProgressTracker
NoTracker == <<>>

\* ProgressTracker.__init__
NewTracker(total_chunks, now) ==
  [total |-> total_chunks, completed |-> 0, in_progress |-> 0,
   failed |-> 0, skipped |-> 0, start_time |-> TimeTime(now),
   chunk_times |-> <<>>]

StartChunkTwice(t) == [t EXCEPT !.in_progress = @ + 2]

StartChunk(t) == [t EXCEPT !.in_progress = @ + 1]

CompleteChunk(t, duration) ==
  [t EXCEPT !.completed = @ + 1,
            !.in_progress = Max(0, @ - 1),
            !.chunk_times = Append(@, duration)]

FailChunkNoFloor(t) ==
  [t EXCEPT !.failed = @ + 1, !.in_progress = @ - 1]

FailChunk(t) ==
  [t EXCEPT !.failed = @ + 1, !.in_progress = Max(0, @ - 1)]

SkipChunk(t) == [t EXCEPT !.skipped = @ + 1]

RECURSIVE Sum(_)
Sum(s) == IF s = <<>> THEN 0 ELSE Head(s) + Sum(Tail(s))

\* _format_time of a float that is not negative; the units are written in
\* Latin letters here ("sek", "min", "ch")
FormatTime(seconds) ==
  Only({IF int < 60 THEN <<int, "sek">>
        ELSE IF int < 3600
             THEN <<FloatInt(FloatDivByInt(seconds, 60)), "min",
                    FloatInt(FloatModInt(seconds, 60)), "sek">>
             ELSE <<FloatInt(FloatDivByInt(seconds, 3600)), "ch",
                    FloatInt(FloatDivByInt(FloatModInt(seconds, 3600), 60)),
                    "min">> :
        int \in {FloatInt(seconds)}})

\* get_stats at clock tick now
GetStats(t, now) ==
  LET pending == t.total - t.completed - t.failed - t.skipped
      percent == IF t.total > 0
                 THEN FloatInt(FloatMulInt(FloatDivInt(t.completed, t.total),
                                           100))
                 ELSE 0
      eta_seconds == IF t.chunk_times # <<>> /\ pending > 0
                     THEN FloatMulInt(FloatDivInt(Sum(t.chunk_times),
                                                  Len(t.chunk_times)),
                                      pending)
                     ELSE FloatZero
  IN [total |-> t.total, completed |-> t.completed,
      in_progress |-> t.in_progress, pending |-> pending,
      failed |-> t.failed, skipped |-> t.skipped, percent |-> percent,
      eta |-> FormatTime(eta_seconds),
      elapsed |-> FormatTime(FloatOfInt(TimeTime(now) - t.start_time))]

\* ------------------------------------------------------------------ state
VARIABLES
  keys_data,    \* AsyncAPIKeyManager.keys_data
  stats_file,   \* the contents of Config.STATS_FILE
  clock,        \* the wall clock (datetime.now(), time.time())
  api_keys,     \* GeminiTTSAppAsync.api_keys
  lastOp,       \* the last pool operation, its arguments and its result
  succ,         \* per credential, record_request calls since its last reset
                \* (a loaded record starts at its stored requests_today)
  used_at,      \* per credential, the clock of its last record_request, or
                \* NeverUsed
  quota_hit,    \* credentials with a 429 recorded and no reset since
  is_generating,\* GeminiTTSAppAsync.is_generating
  model,        \* the model of the batch in flight (model_var)
  sem,          \* free slots of the batch's asyncio.Semaphore
  tasks,        \* per chunk, where its generate_with_semaphore task stands
  tracker,      \* the ProgressTracker of the batch in flight
  progress,     \* what _update_progress last read from tracker.get_stats()
  lastTrack,    \* the last ProgressTracker operation and its argument
  max_parallel, \* the size of the batch's semaphore (parallel_var)
  enabled_chunks,\* the chunks of the batch in flight (w.is_enabled())
  store_ok,     \* whether the stats file can be opened
  loop_thread,  \* the pool operation the event-loop thread is inside
  gui_thread,   \* the pool operation the front-end thread is inside
  loop,         \* the batch's event loop (self.loop): "none" before
                \* _run_generation makes it and once it is closed,
                \* "running", or "stopping" after loop.stop()
  retry,        \* the attempt loop of a generate_chunk call run under a
                \* Config of its own: MAX_RETRIES, RETRY_DELAYS, the
                \* attempt index and the last asyncio.sleep(delay)
  runs          \* the _run_generation threads beside the one self.loop
                \* belongs to: spawned, a thread that has not yet made its
                \* loop; stale, a stopped loop whose thread has not reached
                \* its finally while self.loop is a newer loop, and the
                \* chunks whose tasks that loop holds

poolVars ==
  <<keys_data, stats_file, clock, lastOp, succ, used_at, quota_hit>>

\* what a step of generate_chunk leaves alone outside the pool
restVars ==
  <<progress, lastTrack, max_parallel, enabled_chunks, store_ok,
    loop_thread, gui_thread, loop, retry, runs>>

batchVars ==
  <<is_generating, model, sem, tasks, tracker, progress, lastTrack,
    max_parallel, enabled_chunks, store_ok, loop_thread, gui_thread, loop,
    retry, runs>>

vars == <<keys_data, stats_file, clock, api_keys, lastOp, succ, used_at,
          quota_hit, is_generating, model, sem, tasks, tracker, progress,
          lastTrack, max_parallel, enabled_chunks, store_ok, loop_thread,
          gui_thread, loop, retry, runs>>

\* ----------------------------------------------------------------- inputs
\* stats files that save_stats can have written in an earlier run
StatsRecords ==
  { [requests_today |-> 1, reset_time |-> Isoformat(0), last_request |-> 0,
     exhausted |-> TRUE, error_count |-> 1],
    [requests_today |-> 1, reset_time |-> Isoformat(DayLen),
     last_request |-> 0, exhausted |-> FALSE, error_count |-> 0],
    [requests_today |-> 1, reset_time |-> NoTime, last_request |-> 0,
     exhausted |-> TRUE, error_count |-> 1],
    NewKeyRecord }

StatsFiles ==
  {[exists |-> FALSE, data |-> <<>>]} \cup
  {[exists |-> TRUE, data |-> ("k1" :> r)] : r \in StatsRecords}

KeyFiles ==
  { [exists |-> FALSE, lines |-> <<>>],
    [exists |-> TRUE,
     lines |-> << <<"k1">>, <<"#", "k2">>, <<>>, <<" ", "k2", " ">> >>],
    [exists |-> TRUE, lines |-> << <<"k1">>, <<" ">>, <<"k1">> >>],
    [exists |-> TRUE, lines |-> << <<"k2">> >>] }

\* the inputs of the application runs
StatsFilesBatch ==
  { [exists |-> FALSE, data |-> <<>>],
    [exists |-> TRUE,
     data |-> ("k1" :> [requests_today |-> 1,
                        reset_time |-> Isoformat(DayLen),
                        last_request |-> 0, exhausted |-> FALSE,
                        error_count |-> 0])] }

KeyFilesBatch == {f \in KeyFiles : f.exists /\ Len(f.lines) > 1}

CandidateLists ==
  {<<>>, <<"k1">>, <<"k2">>, <<"k1", "k2">>, <<"k2", "k1">>}

Chunks == 1..NumChunks

\* ------------------------------------------------ the pool and its ghosts
\* the record of an operation: its name, its arguments (key, keys_list,
\* model, is_429), its result (ret, or keys_list for load_keys_from_file)
\* and what it did: new, the credentials it inserted; reset, the ones it
\* zeroed; unset, the ones that had no reset_time when it began; wait is
\* the result of get_wait_time
Op(op, key, keys_list, mdl, ret, is_429, new, reset, unset) ==
  [op |-> op, key |-> key, keys_list |-> keys_list, model |-> mdl,
   ret |-> ret, is_429 |-> is_429, new |-> new, reset |-> reset,
   unset |-> unset, wait |-> 0]

NeverUsed == 0 - 1

Unset(kd) == {k \in DOMAIN kd : kd[k].reset_time = NoTime}

Used(kd) ==
  {k \in DOMAIN kd : kd[k].requests_today > 0 \/ kd[k].exhausted
                        \/ kd[k].error_count > 0}

\* the reset check at now, and the one at now2 when a key was inserted,
\* reset credential k
WasReset(kd, k, now, now2, inserted) ==
  /\ k \in DOMAIN kd
  /\ \/ ResetDue(kd[k], now)
     \/ inserted /\ ResetDue(CheckKeyReset(kd[k], now), now2)

\* the pool, its durable state, the clock and the ghosts as one value, so
\* that a task's step can apply several pool operations in a row
Pool ==
  [kd |-> keys_data, file |-> stats_file, now |-> clock, op |-> lastOp,
   succ |-> succ, used |-> used_at, hit |-> quota_hit]

SetPool(P) ==
  /\ keys_data' = P.kd
  /\ stats_file' = P.file
  /\ clock' = P.now
  /\ lastOp' = P.op
  /\ succ' = P.succ
  /\ used_at' = P.used
  /\ quota_hit' = P.hit

\* a step of the application leaves no operation record
NoOp == Op("none", NoneKey, <<>>, "flash", NoneKey, FALSE, {}, {}, {})

SetPoolOnly(P) ==
  /\ keys_data' = P.kd
  /\ stats_file' = P.file
  /\ clock' = P.now
  /\ lastOp' = NoOp
  /\ succ' = P.succ
  /\ used_at' = P.used
  /\ quota_hit' = P.hit

\* save_stats: when open raises, the exception is printed and the file
\* stays as it is
SaveStats(P) ==
  IF store_ok THEN [P EXCEPT !.file = [exists |-> TRUE, data |-> P.kd]]
  ELSE P

ReadableAlways(file) == file

\* what load_stats gets from the stats file: when open raises, the exception
\* is printed and keys_data stays the empty dict of __init__
Readable(file) ==
  IF store_ok THEN file ELSE [exists |-> FALSE, data |-> <<>>]

DoLoadStats(P) ==
  LET file == Readable(P.file)
      kd == LoadStats(file, P.now)
  IN [P EXCEPT
        !.kd = kd,
        !.op = Op("load_stats", NoneKey, <<>>, "flash", NoneKey, FALSE, {},
                  {k \in DOMAIN file.data : ResetDue(file.data[k], P.now)},
                  Unset(file.data)),
        !.succ = [k \in Keys |-> IF k \in DOMAIN kd
                                 THEN kd[k].requests_today ELSE 0],
        !.used = [k \in Keys |-> IF k \in DOMAIN kd
                                 THEN P.used[k] ELSE NeverUsed],
        !.hit = {k \in DOMAIN kd : kd[k].exhausted} \cup
                {k \in P.hit : k \in DOMAIN file.data
                               /\ ~ResetDue(file.data[k], P.now)}]

DoLoadKeysFromFile(P, file) ==
  LET r == LoadKeysFromFile(P.kd, file)
  IN [P EXCEPT
        !.kd = r.kd,
        !.op = Op("load_keys_from_file", NoneKey, r.ret, "flash", NoneKey,
                  FALSE, DOMAIN r.kd \ DOMAIN P.kd, {}, {})]

DoGetBestKey(P, keys_list, mdl, now2) ==
  CHOOSE P1 \in
    {LET inserted == DOMAIN r.kd # DOMAIN P.kd
     IN [P EXCEPT
           !.kd = r.kd,
           !.now = IF inserted THEN now2 ELSE P.now,
           !.op = Op("get_best_key", NoneKey, keys_list, mdl, r.ret, FALSE,
                     DOMAIN r.kd \ DOMAIN P.kd,
                     {k \in Keys : WasReset(P.kd, k, P.now, now2, inserted)},
                     Unset(P.kd)),
           !.succ = [k \in Keys |->
                       IF WasReset(P.kd, k, P.now, now2, inserted)
                       THEN 0 ELSE P.succ[k]],
           !.hit = {k \in P.hit :
                      ~WasReset(P.kd, k, P.now, now2, inserted)}] :
     r \in {GetBestKey(P.kd, keys_list, mdl, P.now, now2)}} : TRUE

DoRecordRequest(P, key) ==
  LET P1 == [P EXCEPT
               !.kd = RecordRequest(P.kd, key, TimeTime(P.now)),
               !.op = Op("record_request", key, <<>>, "flash", NoneKey,
                         FALSE, {}, {}, {}),
               !.succ = [P.succ EXCEPT ![key] = IF key \in DOMAIN P.kd
                                               THEN @ + 1 ELSE @],
               !.used = [P.used EXCEPT ![key] = IF key \in DOMAIN P.kd
                                               THEN P.now ELSE @]]
  IN IF key \in DOMAIN P.kd THEN SaveStats(P1) ELSE P1

DoRecordError(P, key, is_429) ==
  LET P1 == [P EXCEPT
               !.kd = RecordError(P.kd, key, is_429),
               !.op = Op("record_error", key, <<>>, "flash", NoneKey,
                         is_429, {}, {}, {}),
               !.hit = IF is_429 /\ key \in DOMAIN P.kd
                       THEN P.hit \cup {key} ELSE P.hit]
  IN IF key \in DOMAIN P.kd THEN SaveStats(P1) ELSE P1

\* get_wait_time: no lock, nothing saved
DoGetWaitTime(P, key, mdl) ==
  [P EXCEPT
     !.op = [Op("get_wait_time", key, <<>>, mdl, NoneKey, FALSE, {}, {}, {})
               EXCEPT !.wait = GetWaitTime(P.kd, key, mdl, TimeTime(P.now))]]

DoResetAllStats(P) ==
  SaveStats([P EXCEPT
               !.kd = ResetAllStats(P.kd),
               !.op = Op("reset_all_stats", NoneKey, <<>>, "flash", NoneKey,
                         FALSE, {}, Used(P.kd), {}),
               !.succ = [k \in Keys |-> 0],
               !.hit = {}])

\* ------------------------------------------------------------------- Init
NewLog ==
  [n_sel |-> 0, n_call |-> 0, n_429 |-> 0, n_other |-> 0, n_rec |-> 0,
   n_err |-> 0, n_wait |-> 0, start |-> 0]

IdleTask ==
  [pc |-> "idle", key |-> NoneKey, attempt |-> 0, wake |-> 0, result |-> "",
   log |-> NewLog]

NoStats == <<>>

NoTrack == [op |-> "none", duration |-> 0]

\* a thread that is inside no pool operation
IdleThread == [pc |-> "idle", key |-> NoneKey, tmp |-> 0, todo |-> {}]

\* one _run_generation thread at most
NoRuns == [spawned |-> FALSE, stale |-> FALSE, chunks |-> {}]

\* no call under a Config of its own
NoRetry ==
  [pc |-> "idle", max_retries |-> 0, retry_delays |-> <<>>, attempt |-> 0,
   delay |-> 0]

\* the application after construction, before any batch
InitApp ==
  /\ store_ok = TRUE
  /\ stats_file \in StatsFiles
  /\ clock = 0
  /\ keys_data = LoadStats(stats_file, clock)
  /\ api_keys = <<>>
  /\ lastOp = NoOp
  /\ succ = [k \in Keys |-> IF k \in DOMAIN keys_data
                            THEN keys_data[k].requests_today ELSE 0]
  /\ used_at = [k \in Keys |-> NeverUsed]
  /\ quota_hit = {k \in DOMAIN keys_data : keys_data[k].exhausted}
  /\ is_generating = FALSE
  /\ model = "flash"
  /\ sem = 0
  /\ tasks = [c \in Chunks |-> IdleTask]
  /\ progress = NoStats
  /\ lastTrack = NoTrack
  /\ max_parallel = 0
  /\ enabled_chunks = {}
  /\ loop_thread = IdleThread
  /\ gui_thread = IdleThread
  /\ loop = "none"

Init == InitApp /\ tracker = NoTracker /\ retry = NoRetry /\ runs = NoRuns

\* ------------------------------------------------- the pool's operations
\* time passes between two operations
Tick ==
  /\ lastOp = NoOp
  /\ clock < MaxClock
  /\ clock' = clock + 1
  /\ UNCHANGED <<keys_data, stats_file, api_keys, lastOp, succ, used_at,
                 quota_hit>>
  /\ UNCHANGED batchVars

\* the operation returns to its caller, which drops its record; the next
\* operation starts from here
Return ==
  /\ lastOp # NoOp
  /\ lastOp' = NoOp
  /\ UNCHANGED <<keys_data, stats_file, clock, api_keys, succ, used_at,
                 quota_hit>>
  /\ UNCHANGED batchVars

\* a new process: AsyncAPIKeyManager.__init__ reads the stats file
Restart ==
  /\ lastOp = NoOp
  /\ \E P \in {DoLoadStats(Pool)} : SetPool(P)
  /\ api_keys' = <<>>
  /\ is_generating' = FALSE
  /\ model' = "flash"
  /\ sem' = 0
  /\ tasks' = [c \in Chunks |-> IdleTask]
  /\ tracker' = NoTracker
  /\ progress' = NoStats
  /\ lastTrack' = NoTrack
  /\ max_parallel' = 0
  /\ enabled_chunks' = {}
  /\ loop_thread' = IdleThread
  /\ gui_thread' = IdleThread
  /\ loop' = "none"
  /\ retry' = NoRetry
  /\ runs' = NoRuns
  /\ UNCHANGED store_ok

CallLoadKeysFromFile(file) ==
  /\ lastOp = NoOp
  /\ \E P \in {DoLoadKeysFromFile(Pool, file)} : SetPool(P)
  /\ UNCHANGED api_keys
  /\ UNCHANGED batchVars

\* the clock is read a second time only after an insertion
CallGetBestKey(keys_list, mdl, now2) ==
  /\ lastOp = NoOp
  /\ now2 <= MaxClock
  /\ now2 # clock =>
       \E i \in DOMAIN keys_list : keys_list[i] \notin DOMAIN keys_data
  /\ \E P \in {DoGetBestKey(Pool, keys_list, mdl, now2)} : SetPool(P)
  /\ UNCHANGED api_keys
  /\ UNCHANGED batchVars

CallRecordRequest(key) ==
  /\ lastOp = NoOp
  /\ key \in DOMAIN keys_data => keys_data[key].requests_today < RpdFlash
  /\ \E P \in {DoRecordRequest(Pool, key)} : SetPool(P)
  /\ UNCHANGED api_keys
  /\ UNCHANGED batchVars

CallRecordError(key, is_429) ==
  /\ lastOp = NoOp
  /\ key \in DOMAIN keys_data => keys_data[key].error_count < MaxErrors
  /\ \E P \in {DoRecordError(Pool, key, is_429)} : SetPool(P)
  /\ UNCHANGED api_keys
  /\ UNCHANGED batchVars

CallGetWaitTime(key, mdl) ==
  /\ lastOp = NoOp
  /\ \E P \in {DoGetWaitTime(Pool, key, mdl)} : SetPool(P)
  /\ UNCHANGED api_keys
  /\ UNCHANGED batchVars

CallResetAllStats ==
  /\ lastOp = NoOp
  /\ \E P \in {DoResetAllStats(Pool)} : SetPool(P)
  /\ UNCHANGED api_keys
  /\ UNCHANGED batchVars

\* the pool's public operations, called in any order
Next ==
  \/ Tick
  \/ Return
  \/ Restart
  \/ \E file \in KeyFiles : CallLoadKeysFromFile(file)
  \/ \E keys_list \in CandidateLists, mdl \in MODELS,
        now2 \in {clock, clock + 1} :
       CallGetBestKey(keys_list, mdl, now2)
  \/ \E key \in Keys : CallRecordRequest(key)
  \/ \E key \in Keys, is_429 \in BOOLEAN : CallRecordError(key, is_429)
  \/ \E key \in Keys, mdl \in MODELS : CallGetWaitTime(key, mdl)
  \/ CallResetAllStats

Spec == Init /\ [][Next]_vars

\* ------------------------------------------ a stats file that cannot be
\* opened: the pool's operations while the file changes between readable
\* and writable and neither
StoreFlips ==
  /\ lastOp = NoOp
  /\ store_ok' = ~store_ok
  /\ UNCHANGED <<api_keys, is_generating, model, sem, tasks, tracker,
                 progress, lastTrack, max_parallel, enabled_chunks,
                 loop_thread, gui_thread, loop, retry, runs>>
  /\ UNCHANGED poolVars

\* one caller that selects among both credentials and records on the first
NextStore ==
  \/ StoreFlips
  \/ Return
  \/ Restart
  \/ \E mdl \in MODELS : CallGetBestKey(<<"k1", "k2">>, mdl, clock)
  \/ CallRecordRequest("k1")
  \/ \E is_429 \in BOOLEAN : CallRecordError("k1", is_429)
  \/ CallResetAllStats

InitStore == Init /\ ~stats_file.exists

SpecStore == InitStore /\ [][NextStore]_vars

\* ------------------------------------------------------- generate_chunk
\* A task runs without interruption from one suspension (asyncio.sleep,
\* run_in_executor, a full semaphore) to the next.  Its pc names the
\* suspension it is in: "queued" (before the semaphore), "sleep" (the wait
\* for the rate limit), "call" (_generate_sync in the executor), "save"
\* (_save_audio_smart in the executor), "backoff" (the retry delay), or,
\* once generate_chunk has returned, "done" (success) or "failed".
\* result is what generate_chunk returned: "ok" (True, output_file, ""),
\* "no_keys" (False, None, all keys exhausted), "error" (False, None, type
\* and message of the last exception) or "attempts" (False, None, number
\* of attempts exceeded).  log counts what the call has done so far: its
\* get_best_key calls, remote invocations, 429 answers, other exceptions,
\* record_request calls, record_error(key, False) calls and sleeps; start
\* is the time.time() at which the task of a batch called start_chunk.
AtSuspension(pc, key, attempt, wake, log) ==
  [pc |-> pc, key |-> key, attempt |-> attempt, wake |-> wake,
   result |-> "", log |-> log]

Returned(result, key, attempt, log) ==
  [pc |-> IF result = "ok" THEN "done" ELSE "failed", key |-> key,
   attempt |-> attempt, wake |-> 0, result |-> result, log |-> log]

SelectedRecordsOnNone(P1, attempt, log) ==
  LET key == P1.op.ret
      log1 == [log EXCEPT !.n_sel = @ + 1]
  IN IF key = NoneKey
     THEN [P |-> DoRecordError(P1, api_keys[1], FALSE),
           task |-> Returned("no_keys", NoneKey, attempt, log1)]
     ELSE LET wait_time ==
                GetWaitTime(P1.kd, key, model, TimeTime(P1.now))
          IN IF wait_time > 0
             THEN [P |-> P1,
                   task |-> AtSuspension("sleep", key, attempt,
                                         P1.now + wait_time,
                                         [log1 EXCEPT !.n_wait = @ + 1])]
             ELSE [P |-> P1,
                   task |-> AtSuspension("call", key, attempt, 0,
                                         [log1 EXCEPT !.n_call = @ + 1])]

SelectedNoWait(P1, attempt, log) ==
  LET key == P1.op.ret
      log1 == [log EXCEPT !.n_sel = @ + 1]
  IN IF key = NoneKey
     THEN [P |-> P1, task |-> Returned("no_keys", NoneKey, attempt, log1)]
     ELSE [P |-> P1,
           task |-> AtSuspension("call", key, attempt, 0,
                                 [log1 EXCEPT !.n_call = @ + 1])]

\* after get_best_key: no key, the wait for the rate limit, or the call
Selected(P1, attempt, log) ==
  LET key == P1.op.ret
      log1 == [log EXCEPT !.n_sel = @ + 1]
  IN IF key = NoneKey
     THEN [P |-> P1, task |-> Returned("no_keys", NoneKey, attempt, log1)]
     ELSE LET wait_time ==
                GetWaitTime(P1.kd, key, model, TimeTime(P1.now))
          IN IF wait_time > 0
             THEN [P |-> P1,
                   task |-> AtSuspension("sleep", key, attempt,
                                         P1.now + wait_time,
                                         [log1 EXCEPT !.n_wait = @ + 1])]
             ELSE [P |-> P1,
                   task |-> AtSuspension("call", key, attempt, 0,
                                         [log1 EXCEPT !.n_call = @ + 1])]

AttemptOneMore(P, attempt, now2, log) ==
  IF attempt > MAX_RETRIES + 1
  THEN [P |-> P, task |-> Returned("attempts", NoneKey, attempt, log)]
  ELSE CHOOSE r \in {Selected(P1, attempt, log) :
                       P1 \in {DoGetBestKey(P, api_keys, model, now2)}} : TRUE

\* the head of the loop for attempt in range(MAX_RETRIES + 1), up to the
\* next suspension or return
Attempt(P, attempt, now2, log) ==
  IF attempt > MAX_RETRIES
  THEN [P |-> P, task |-> Returned("attempts", NoneKey, attempt, log)]
  ELSE CHOOSE r \in {Selected(P1, attempt, log) :
                       P1 \in {DoGetBestKey(P, api_keys, model, now2)}} : TRUE

RetryDelayWraps(attempt, retry_delays) ==
  retry_delays[(attempt % Len(retry_delays)) + 1]

\* the delay before the retry that follows attempt: RETRY_DELAYS[attempt],
\* or RETRY_DELAYS[-1] once the list is used up
RetryDelay(attempt, retry_delays) ==
  IF attempt < Len(retry_delays)
  THEN retry_delays[attempt + 1]
  ELSE retry_delays[Len(retry_delays)]

OtherErrorAlwaysRecords(P, task) ==
  LET log1 == [task.log EXCEPT !.n_other = @ + 1]
  IN IF task.attempt < MAX_RETRIES
     THEN LET delay == IF task.attempt < Len(RETRY_DELAYS)
                       THEN RETRY_DELAYS[task.attempt + 1]
                       ELSE RETRY_DELAYS[Len(RETRY_DELAYS)]
          IN [P |-> DoRecordError(P, task.key, FALSE),
              task |-> AtSuspension("backoff", task.key, task.attempt,
                                    P.now + delay,
                                    [log1 EXCEPT !.n_wait = @ + 1,
                                                 !.n_err = @ + 1])]
     ELSE [P |-> DoRecordError(P, task.key, FALSE),
           task |-> Returned("error", task.key, task.attempt,
                             [log1 EXCEPT !.n_err = @ + 1])]

OtherErrorMarksExhausted(P, task) ==
  LET log1 == [task.log EXCEPT !.n_other = @ + 1]
  IN IF task.attempt < MAX_RETRIES
     THEN LET delay == IF task.attempt < Len(RETRY_DELAYS)
                       THEN RETRY_DELAYS[task.attempt + 1]
                       ELSE RETRY_DELAYS[Len(RETRY_DELAYS)]
          IN [P |-> P,
              task |-> AtSuspension("backoff", task.key, task.attempt,
                                    P.now + delay,
                                    [log1 EXCEPT !.n_wait = @ + 1])]
     ELSE [P |-> DoRecordError(P, task.key, TRUE),
           task |-> Returned("error", task.key, task.attempt,
                             [log1 EXCEPT !.n_err = @ + 1])]

\* except Exception: retry after a delay, or give up on the last attempt
OtherError(P, task) ==
  LET log1 == [task.log EXCEPT !.n_other = @ + 1]
  IN IF task.attempt < MAX_RETRIES
     THEN LET delay == RetryDelay(task.attempt, RETRY_DELAYS)
          IN [P |-> P,
              task |-> AtSuspension("backoff", task.key, task.attempt,
                                    P.now + delay,
                                    [log1 EXCEPT !.n_wait = @ + 1])]
     ELSE [P |-> DoRecordError(P, task.key, FALSE),
           task |-> Returned("error", task.key, task.attempt,
                             [log1 EXCEPT !.n_err = @ + 1])]

Terminal(task) == task.pc \in {"done", "failed"}

ReturnValueNoSummary(task) ==
  [success |-> task.result = "ok",
   audio_file |-> IF task.result = "ok" THEN "output_file" ELSE "None",
   error_msg |-> IF task.result = "no_keys" THEN "all keys exhausted"
                 ELSE IF task.result = "error" THEN "error_type: error_msg"
                 ELSE ""]

\* the tuple generate_chunk returns; the messages are written in English
\* here, and "error_type: error_msg" stands for the type of the last
\* exception, a colon and the first 100 characters of its message
ReturnValue(task) ==
  [success |-> task.result = "ok",
   audio_file |-> IF task.result = "ok" THEN "output_file" ELSE "None",
   error_msg |-> IF task.result = "ok" THEN ""
                 ELSE IF task.result = "no_keys" THEN "all keys exhausted"
                 ELSE IF task.result = "error" THEN "error_type: error_msg"
                 ELSE "number of attempts exceeded"]

AllIdle == \A c \in Chunks : tasks[c].pc = "idle"

\* what a step of the call for chunk c leaves: the pool and the task
TaskStep(c, r) ==
  /\ SetPoolOnly(r.P)
  /\ tasks' = [tasks EXCEPT ![c] = r.task]
  /\ UNCHANGED <<api_keys, is_generating, model>>
  /\ UNCHANGED restVars

\* asyncio.sleep(wait_time) is over
TaskWake(c) ==
  /\ tasks[c].pc = "sleep"
  /\ clock >= tasks[c].wake
  /\ TaskStep(c, [P |-> Pool,
                  task |-> AtSuspension("call", tasks[c].key,
                                        tasks[c].attempt, 0,
                                        [tasks[c].log EXCEPT
                                           !.n_call = @ + 1])])

TaskCallReturnsRecords(c) ==
  /\ tasks[c].pc = "call"
  /\ \E P \in {DoRecordRequest(Pool, tasks[c].key)} :
       TaskStep(c, [P |-> P,
                    task |-> AtSuspension("save", tasks[c].key,
                                          tasks[c].attempt, 0,
                                          [tasks[c].log EXCEPT
                                             !.n_rec = @ + 1])])

\* _generate_sync returns the audio
TaskCallReturns(c) ==
  /\ tasks[c].pc = "call"
  /\ TaskStep(c, [P |-> Pool,
                  task |-> AtSuspension("save", tasks[c].key,
                                        tasks[c].attempt, 0, tasks[c].log)])

\* _generate_sync raises ResourceExhausted
TaskCall429(c, now2) ==
  /\ tasks[c].pc = "call"
  /\ tasks[c].key \in DOMAIN keys_data
       => keys_data[tasks[c].key].error_count < MaxErrors
  /\ \E P \in {DoRecordError(Pool, tasks[c].key, TRUE)} :
       \E r \in {Attempt(P, tasks[c].attempt + 1, now2,
                         [tasks[c].log EXCEPT !.n_429 = @ + 1])} :
         TaskStep(c, r)

\* _generate_sync raises another exception
TaskCallFails(c) ==
  /\ tasks[c].pc = "call"
  /\ tasks[c].key \in DOMAIN keys_data
       => keys_data[tasks[c].key].error_count < MaxErrors
  /\ \E r \in {OtherError(Pool, tasks[c])} : TaskStep(c, r)

\* _save_audio_smart returns the file
TaskSaveReturns(c) ==
  /\ tasks[c].pc = "save"
  /\ \E P \in {DoRecordRequest(Pool, tasks[c].key)} :
       TaskStep(c, [P |-> P,
                    task |-> Returned("ok", tasks[c].key, tasks[c].attempt,
                                      [tasks[c].log EXCEPT
                                         !.n_rec = @ + 1])])

TaskSaveFailsRecords(c) ==
  /\ tasks[c].pc = "save"
  /\ tasks[c].key \in DOMAIN keys_data
       => keys_data[tasks[c].key].error_count < MaxErrors
  /\ \E r \in {OtherError(DoRecordRequest(Pool, tasks[c].key), tasks[c])} :
       TaskStep(c, r)

\* _save_audio_smart raises
TaskSaveFails(c) ==
  /\ tasks[c].pc = "save"
  /\ tasks[c].key \in DOMAIN keys_data
       => keys_data[tasks[c].key].error_count < MaxErrors
  /\ \E r \in {OtherError(Pool, tasks[c])} : TaskStep(c, r)

TaskRetryRotates(c, now2) ==
  /\ tasks[c].pc = "backoff"
  /\ clock >= tasks[c].wake
  /\ \E r \in {Attempt(DoRecordError(Pool, tasks[c].key, FALSE),
                        tasks[c].attempt + 1, now2, tasks[c].log)} :
       TaskStep(c, r)

\* asyncio.sleep(delay) is over
TaskRetry(c, now2) ==
  /\ tasks[c].pc = "backoff"
  /\ clock >= tasks[c].wake
  /\ \E r \in {Attempt(Pool, tasks[c].attempt + 1, now2, tasks[c].log)} :
       TaskStep(c, r)

\* the steps of a call that is under way
CallNext(c) ==
  \/ TaskWake(c)
  \/ TaskCallReturns(c)
  \/ \E now2 \in {clock, clock + 1} : TaskCall429(c, now2)
  \/ TaskCallFails(c)
  \/ TaskSaveReturns(c)
  \/ TaskSaveFails(c)
  \/ \E now2 \in {clock, clock + 1} : TaskRetry(c, now2)

\* --------------------------------------------------------- the front end
\* _load_api_keys; a call keeps the list it was given, and the front end
\* loads here only while no call is under way
LoadApiKeys(file) ==
  /\ AllIdle
  /\ \E P \in {DoLoadKeysFromFile(Pool, file)} :
       SetPoolOnly(P) /\ api_keys' = P.op.keys_list
  /\ UNCHANGED batchVars

\* _reset_keys_stats
ResetKeysStats ==
  /\ \E P \in {DoResetAllStats(Pool)} : SetPoolOnly(P)
  /\ UNCHANGED api_keys
  /\ UNCHANGED batchVars

\* ------------------------------------------------- _generate_all_chunks
\* async with semaphore: ... generate_chunk(...); gather starts the tasks
\* in the order of the chunks and the semaphore wakes its waiters in the
\* order they came
FinishForgetsFailure(t, task, now) ==
  IF task.pc = "done"
  THEN CompleteChunk(t, TimeTime(now) - t.start_time)
  ELSE t

\* generate_with_semaphore after generate_chunk has returned (success,
\* audio_file, error_msg) at the clock now: complete_chunk with the time
\* since the tracker was made, or fail_chunk
Finish(t, task, now) ==
  IF task.pc = "done"
  THEN CompleteChunk(t, TimeTime(now) - t.start_time)
  ELSE IF task.pc = "failed" THEN FailChunk(t) ELSE t

TaskBegin(c, now2) ==
  /\ tasks[c].pc = "queued"
  /\ \A d \in Chunks : d < c => tasks[d].pc # "queued"
  /\ sem > 0
  /\ \E r \in {Attempt(Pool, 0, now2,
                         [NewLog EXCEPT !.start = TimeTime(clock)])} :
       /\ TaskStep(c, r)
       /\ sem' = IF Terminal(r.task) THEN sem ELSE sem - 1
       /\ tracker' = Finish(StartChunk(tracker), r.task, r.P.now)

ReleaseSlotAlways(c) ==
  /\ sem' = IF sem < max_parallel THEN sem + 1 ELSE sem
  /\ tracker' = Finish(tracker, tasks'[c], clock')

\* generate_with_semaphore leaves the semaphore when generate_chunk returns
ReleaseSlot(c) ==
  /\ sem' = IF Terminal(tasks'[c]) THEN sem + 1 ELSE sem
  /\ tracker' = Finish(tracker, tasks'[c], clock')

\* _start_generation, _run_generation, _generate_all_chunks up to gather:
\* enabled are the chunks whose widget is enabled; with none enabled
\* _generate_all_chunks returns before it makes a tracker
StartGeneration(mdl, parallel, enabled) ==
  /\ api_keys # <<>>
  /\ ~is_generating
  /\ AllIdle
  /\ is_generating' = TRUE
  /\ loop' = "running"
  /\ enabled_chunks' = enabled
  /\ IF enabled = {}
     THEN UNCHANGED <<tracker, model, max_parallel, sem, tasks>>
     ELSE /\ tracker' = NewTracker(Cardinality(enabled), clock)
          /\ model' = mdl
          /\ max_parallel' = parallel
          /\ sem' = parallel
          /\ tasks' = [c \in Chunks |->
                         IF c \in enabled
                         THEN AtSuspension("queued", NoneKey, 0, 0, NewLog)
                         ELSE IdleTask]
  /\ UNCHANGED <<api_keys, progress, lastTrack, store_ok, loop_thread,
                 gui_thread, retry, runs>>
  /\ UNCHANGED poolVars

\* gather returns; _run_generation's finally
GenerationComplete ==
  /\ loop = "running"
  /\ \A c \in enabled_chunks : Terminal(tasks[c])
  /\ is_generating' = FALSE
  /\ loop' = "none"
  /\ tasks' = [c \in Chunks |-> IdleTask]
  /\ tracker' = NoTracker
  /\ enabled_chunks' = {}
  /\ max_parallel' = 0
  /\ UNCHANGED <<api_keys, model, sem, progress, lastTrack, store_ok,
                 loop_thread, gui_thread, retry, runs>>
  /\ UNCHANGED poolVars

\* a step of the task of chunk c that ends, and sleeps, within MaxClock
TaskNext(c) ==
  /\ \/ \E now2 \in {clock, clock + 1} : TaskBegin(c, now2)
     \/ CallNext(c) /\ ReleaseSlot(c)
  /\ clock' <= MaxClock
  /\ tasks'[c].wake <= MaxClock

\* the application: the front end and the tasks of a batch
NextBatch ==
  \/ Tick
  \/ \E file \in KeyFilesBatch : LoadApiKeys(file)
  \/ ResetKeysStats
  \/ \E mdl \in MODELS, parallel \in 1..MaxParallel,
        enabled \in SUBSET Chunks :
       StartGeneration(mdl, parallel, enabled)
  \/ GenerationComplete
  \/ \E c \in Chunks : TaskNext(c)

InitBatch == Init /\ stats_file \in StatsFilesBatch

SpecBatch == InitBatch /\ [][NextBatch]_vars

\* ------------------------------------------------------ a batch stopped
\* _stop_generation, on the front-end thread: loop.stop() sets the loop's
\* stopping flag and returns
StopGeneration ==
  /\ is_generating
  /\ loop' = IF loop = "running" THEN "stopping" ELSE loop
  /\ is_generating' = FALSE
  /\ UNCHANGED <<api_keys, model, sem, tasks, tracker, progress, lastTrack,
                 max_parallel, enabled_chunks, store_ok, loop_thread,
                 gui_thread, retry, runs>>
  /\ UNCHANGED poolVars

\* the stopped loop has run the callbacks that were ready and leaves
\* run_forever: run_until_complete raises RuntimeError, the tasks stay
\* where they are suspended and are dropped with the loop, and
\* _run_generation's finally closes the loop
RunStopped ==
  /\ loop = "stopping"
  /\ loop' = "none"
  /\ is_generating' = FALSE
  /\ tasks' = [c \in Chunks |-> IdleTask]
  /\ tracker' = NoTracker
  /\ enabled_chunks' = {}
  /\ max_parallel' = 0
  /\ sem' = 0
  /\ UNCHANGED <<api_keys, model, progress, lastTrack, store_ok,
                 loop_thread, gui_thread, retry, runs>>
  /\ UNCHANGED poolVars

\* between loop.stop() and the end of the loop the tasks that are ready
\* still run
NextStop ==
  \/ Tick
  \/ \E file \in KeyFilesBatch : LoadApiKeys(file)
  \/ \E mdl \in MODELS, parallel \in 1..MaxParallel,
        enabled \in SUBSET Chunks :
       StartGeneration(mdl, parallel, enabled)
  \/ GenerationComplete
  \/ \E c \in Chunks : TaskNext(c)
  \/ StopGeneration
  \/ RunStopped

SpecStop == InitBatch /\ [][NextStop]_vars

\* ------------------------------------------------- two threads, one pool
\* The tasks of a batch run on the thread of its event loop; the front end
\* runs reset_all_stats on its own thread (_reset_keys_stats), which takes
\* no lock: asyncio.Lock orders the tasks of one loop and nothing else.  The
\* interpreter can switch threads between two reads or writes of a record,
\* so the steps here are single reads and writes.  pc is where the thread
\* is, key the credential it is at, tmp the value it has read (and, in
\* reset_all_stats, the assignment of the loop body it is at), todo the
\* credentials the for loop has not visited yet.
raceFrame ==
  <<clock, api_keys, lastOp, is_generating, model, sem, tasks, tracker,
    progress, lastTrack, max_parallel, enabled_chunks, store_ok, loop,
    retry, runs>>

\* record_request: `if key in self.keys_data` and the read of
\* keys_data[key]['requests_today'] += 1
RecordRequestRead(key) ==
  /\ loop_thread.pc = "idle"
  /\ key \in DOMAIN keys_data
  /\ keys_data[key].requests_today < RpdFlash
  /\ loop_thread' = [pc |-> "add", key |-> key,
                     tmp |-> keys_data[key].requests_today, todo |-> {}]
  /\ UNCHANGED <<keys_data, stats_file, succ, used_at, quota_hit,
                 gui_thread, raceFrame>>

\* the write of keys_data[key]['requests_today'] += 1
RecordRequestWrite ==
  /\ loop_thread.pc = "add"
  /\ keys_data' = [keys_data EXCEPT ![loop_thread.key].requests_today =
                                       loop_thread.tmp + 1]
  /\ succ' = [succ EXCEPT ![loop_thread.key] = @ + 1]
  /\ loop_thread' = [loop_thread EXCEPT !.pc = "stamp"]
  /\ UNCHANGED <<stats_file, used_at, quota_hit, gui_thread, raceFrame>>

\* keys_data[key]['last_request'] = time.time()
RecordRequestStamp ==
  /\ loop_thread.pc = "stamp"
  /\ keys_data' = [keys_data EXCEPT ![loop_thread.key].last_request =
                                       TimeTime(clock)]
  /\ used_at' = [used_at EXCEPT ![loop_thread.key] = clock]
  /\ loop_thread' = [loop_thread EXCEPT !.pc = "save"]
  /\ UNCHANGED <<stats_file, succ, quota_hit, gui_thread, raceFrame>>

\* self.save_stats() and the end of record_request
RecordRequestSave ==
  /\ loop_thread.pc = "save"
  /\ stats_file' = SaveStats(Pool).file
  /\ loop_thread' = IdleThread
  /\ UNCHANGED <<keys_data, succ, used_at, quota_hit, gui_thread,
                 raceFrame>>

\* reset_all_stats: `for key in self.keys_data`
ResetAllStatsBegin ==
  /\ gui_thread.pc = "idle"
  /\ keys_data # <<>>
  /\ gui_thread' = [pc |-> "next", key |-> NoneKey, tmp |-> 0,
                    todo |-> DOMAIN keys_data]
  /\ UNCHANGED <<keys_data, stats_file, succ, used_at, quota_hit,
                 loop_thread, raceFrame>>

\* the for loop takes its next credential, or ends
ResetAllStatsNext ==
  /\ gui_thread.pc = "next"
  /\ IF gui_thread.todo = {}
     THEN gui_thread' = [gui_thread EXCEPT !.pc = "save"]
     ELSE \E k \in gui_thread.todo :
            gui_thread' = [pc |-> "body", key |-> k, tmp |-> 1,
                           todo |-> gui_thread.todo \ {k}]
  /\ UNCHANGED <<keys_data, stats_file, succ, used_at, quota_hit,
                 loop_thread, raceFrame>>

\* one assignment of the loop body: requests_today = 0, exhausted = False,
\* error_count = 0
ResetAllStatsAssign ==
  /\ gui_thread.pc = "body"
  /\ keys_data' =
       IF gui_thread.tmp = 1
       THEN [keys_data EXCEPT ![gui_thread.key].requests_today = 0]
       ELSE IF gui_thread.tmp = 2
            THEN [keys_data EXCEPT ![gui_thread.key].exhausted = FALSE]
            ELSE [keys_data EXCEPT ![gui_thread.key].error_count = 0]
  /\ succ' = IF gui_thread.tmp = 1
             THEN [succ EXCEPT ![gui_thread.key] = 0] ELSE succ
  /\ quota_hit' = IF gui_thread.tmp = 2
                  THEN quota_hit \ {gui_thread.key} ELSE quota_hit
  /\ gui_thread' = IF gui_thread.tmp < 3
                   THEN [gui_thread EXCEPT !.tmp = @ + 1]
                   ELSE [gui_thread EXCEPT !.pc = "next"]
  /\ UNCHANGED <<stats_file, used_at, loop_thread, raceFrame>>

\* self.save_stats() and the end of reset_all_stats
ResetAllStatsSave ==
  /\ gui_thread.pc = "save"
  /\ stats_file' = SaveStats(Pool).file
  /\ gui_thread' = IdleThread
  /\ UNCHANGED <<keys_data, succ, used_at, quota_hit, loop_thread,
                 raceFrame>>

\* _load_api_keys, on the front-end thread between two of its handlers
RaceLoadApiKeys(file) ==
  /\ gui_thread.pc = "idle"
  /\ loop_thread.pc = "idle"
  /\ LoadApiKeys(file)

NextRace ==
  \/ \E file \in KeyFilesBatch : RaceLoadApiKeys(file)
  \/ \E key \in Keys : RecordRequestRead(key)
  \/ RecordRequestWrite
  \/ RecordRequestStamp
  \/ RecordRequestSave
  \/ ResetAllStatsBegin
  \/ ResetAllStatsNext
  \/ ResetAllStatsAssign
  \/ ResetAllStatsSave

SpecRace == InitBatch /\ [][NextRace]_vars

\* ------------------------------------------------- a batch run to its end
\* Batches start up to MaxClockRun; a task that has begun runs on whatever
\* the clock, which passes MaxClockRun only as far as a task sleeps.
TickRun ==
  /\ \/ clock < MaxClockRun
     \/ \E c \in Chunks : /\ tasks[c].pc \in {"sleep", "backoff"}
                          /\ clock < tasks[c].wake
  /\ clock' = clock + 1
  /\ UNCHANGED <<keys_data, stats_file, api_keys, lastOp, succ, used_at,
                 quota_hit>>
  /\ UNCHANGED batchVars

RunNext(c) ==
  /\ \/ \E now2 \in {clock, clock + 1} : TaskBegin(c, now2)
     \/ CallNext(c) /\ ReleaseSlot(c)
  /\ clock' = clock \/ clock' <= MaxClockRun

NextRun ==
  \/ TickRun
  \/ \E file \in KeyFilesBatch : LoadApiKeys(file)
  \/ \E mdl \in MODELS, parallel \in 1..MaxParallel,
        enabled \in SUBSET Chunks :
       clock <= MaxClockRun /\ StartGeneration(mdl, parallel, enabled)
  \/ GenerationComplete
  \/ \E c \in Chunks : RunNext(c)

SpecRun == InitBatch /\ [][NextRun]_vars

\* asyncio runs every task that can run (run_until_complete), the executor
\* calls and the saves return, time passes, and _run_generation goes on to
\* its finally when gather has returned
SpecRunLive ==
  /\ SpecRun
  /\ WF_vars(TickRun)
  /\ \A c \in Chunks : WF_vars(RunNext(c))
  /\ WF_vars(GenerationComplete)

\* ----------------------------------------------- _generate_single_chunk
\* One chunk at a time, from the chunk's own button: no semaphore, and
\* is_generating stays as it is.
\* _on_model_change
ModelChange(mdl) ==
  /\ AllIdle
  /\ model # mdl
  /\ model' = mdl
  /\ UNCHANGED <<api_keys, is_generating, sem, tasks, tracker>>
  /\ UNCHANGED restVars
  /\ UNCHANGED poolVars

\* _generate_single_chunk, _run_single_chunk_generation and
\* _generate_chunk_async up to the first suspension of generate_chunk
UnitBegin(c, now2) ==
  /\ clock <= MaxClockUnit
  /\ api_keys # <<>>
  /\ ~is_generating
  /\ AllIdle
  /\ \E r \in {Attempt(Pool, 0, now2, NewLog)} : TaskStep(c, r)
  /\ UNCHANGED <<sem, tracker>>

\* _generate_chunk_async after generate_chunk has returned
UnitEnd(c) ==
  /\ ~is_generating
  /\ Terminal(tasks[c])
  /\ tasks' = [tasks EXCEPT ![c] = IdleTask]
  /\ UNCHANGED <<api_keys, is_generating, model, sem, tracker>>
  /\ UNCHANGED restVars
  /\ UNCHANGED poolVars

\* the clock runs up to MaxClockUnit and, past it, only as far as the call
\* under way sleeps
TickUnit ==
  /\ \/ clock < MaxClockUnit
     \/ \E c \in Chunks : /\ tasks[c].pc \in {"sleep", "backoff"}
                          /\ clock < tasks[c].wake
  /\ clock' = clock + 1
  /\ UNCHANGED <<keys_data, stats_file, api_keys, lastOp, succ, used_at,
                 quota_hit>>
  /\ UNCHANGED batchVars

UnitNext(c) ==
  \/ \E now2 \in {clock, clock + 1} : UnitBegin(c, now2)
  \/ CallNext(c) /\ UNCHANGED <<sem, tracker>>
  \/ UnitEnd(c)

NextUnit ==
  \/ TickUnit
  \/ \E file \in KeyFilesBatch : LoadApiKeys(file)
  \/ \E mdl \in MODELS : ModelChange(mdl)
  \/ AllIdle /\ ResetKeysStats
  \/ \E c \in Chunks :
       UnitNext(c) /\ (clock' = clock \/ clock' <= MaxClockUnit)

InitUnit == Init /\ stats_file \in StatsFilesBatch

SpecUnit == InitUnit /\ [][NextUnit]_vars

\* The event loop of _run_single_chunk_generation runs the call whenever
\* its sleep is over or its executor future is done (loop.run_until_complete),
\* the remote call and the save return, and time passes.
SpecUnitLive ==
  /\ SpecUnit
  /\ WF_vars(TickUnit)
  /\ \A c \in Chunks : WF_vars(CallNext(c) /\ UNCHANGED <<sem, tracker>>)

\* ------------------------------------------------------- sequential use
\* One caller on a new pool, within one day: it loads a credential source,
\* then repeats get_best_key on the list it got and, when a credential is
\* returned, record_request on that credential.
SeqLoad(file, mdl) ==
  /\ api_keys = <<>>
  /\ lastOp = NoOp
  /\ \E P \in {DoLoadKeysFromFile(Pool, file)} :
       SetPool(P) /\ api_keys' = P.op.keys_list
  /\ model' = mdl
  /\ UNCHANGED <<is_generating, sem, tasks, tracker>>
  /\ UNCHANGED restVars

SeqSelect ==
  /\ api_keys # <<>>
  /\ lastOp.op = "get_best_key" => lastOp.ret = NoneKey
  /\ \E P \in {DoGetBestKey(Pool, api_keys, model, clock)} : SetPool(P)
  /\ UNCHANGED api_keys
  /\ UNCHANGED batchVars

SeqRecord ==
  /\ lastOp.op = "get_best_key"
  /\ lastOp.ret # NoneKey
  /\ \E P \in {DoRecordRequest(Pool, lastOp.ret)} : SetPool(P)
  /\ UNCHANGED api_keys
  /\ UNCHANGED batchVars

SeqTick ==
  /\ clock + 1 < DayLen
  /\ clock' = clock + 1
  /\ UNCHANGED <<keys_data, stats_file, api_keys, lastOp, succ, used_at,
                 quota_hit>>
  /\ UNCHANGED batchVars

NextDeplete ==
  \/ SeqTick
  \/ \E file \in KeyFiles, mdl \in MODELS : SeqLoad(file, mdl)
  \/ SeqSelect
  \/ SeqRecord

InitDeplete == Init /\ ~stats_file.exists

SpecDeplete == InitDeplete /\ [][NextDeplete]_vars

\* ================================================================ claims
Candidates(keys_list) == {keys_list[i] : i \in 1..Len(keys_list)}

Selectable(k, mdl) ==
  /\ k \in DOMAIN keys_data
  /\ keys_data[k].exhausted = FALSE
  /\ keys_data[k].requests_today < (IF mdl = "flash" THEN RpdFlash
                                    ELSE RpdPro)

Remaining(k, mdl) ==
  (IF mdl = "flash" THEN RpdFlash ELSE RpdPro) - keys_data[k].requests_today

\* the candidates of the last selection that pass the filter in the state
\* the selection left
PassingCandidates ==
  {k \in Candidates(lastOp.keys_list) : Selectable(k, lastOp.model)}

\* C2: get_best_key returns a credential only if, after the reset check, it
\* is not exhausted and below the daily limit of the model; it returns None
\* exactly when no candidate passes that filter.
C2_SelectOnlyPassing ==
  lastOp.op = "get_best_key" =>
    /\ lastOp.ret # NoneKey => lastOp.ret \in PassingCandidates
    /\ lastOp.ret = NoneKey <=> PassingCandidates = {}

C2_Witness ==
  /\ lastOp.op = "get_best_key"
  /\ lastOp.ret # NoneKey
  /\ \E k \in Candidates(lastOp.keys_list) :
       /\ keys_data[k].exhausted = FALSE
       /\ keys_data[k].requests_today = RpdPro
       /\ lastOp.model = "pro"

\* C3: the credential get_best_key returns has the fewest errors among the
\* passing candidates; among those, the largest remaining quota; among
\* those, the fewest requests today.
C3_SelectRanking ==
  (lastOp.op = "get_best_key" /\ lastOp.ret # NoneKey) =>
    \A k \in PassingCandidates :
      LET best == keys_data[lastOp.ret]
          other == keys_data[k]
      IN /\ best.error_count <= other.error_count
         /\ best.error_count = other.error_count =>
              /\ Remaining(lastOp.ret, lastOp.model)
                   >= Remaining(k, lastOp.model)
              /\ Remaining(lastOp.ret, lastOp.model)
                   = Remaining(k, lastOp.model)
                 => best.requests_today <= other.requests_today

C3_Witness ==
  /\ lastOp.op = "get_best_key"
  /\ lastOp.ret # NoneKey
  /\ \E k \in PassingCandidates :
       /\ keys_data[k].error_count > keys_data[lastOp.ret].error_count
       /\ Remaining(k, lastOp.model) > Remaining(lastOp.ret, lastOp.model)

\* C4: a credential with a 429 recorded is not returned by get_best_key
\* until reset_all_stats or a due automatic reset of it.
C4_StickyExhaustion ==
  lastOp.op = "get_best_key" => lastOp.ret \notin quota_hit

C4_Witness ==
  /\ lastOp.op = "get_best_key"
  /\ lastOp.ret # NoneKey
  /\ \E k \in quota_hit \cap Candidates(lastOp.keys_list) :
       /\ succ[k] > 0
       /\ keys_data[k].requests_today < RpdFlash
       /\ lastOp.model = "flash"

\* C5: requests_today of a known credential is the number of record_request
\* calls for it since its last reset.
C5_RequestsCounted ==
  \A k \in DOMAIN keys_data : keys_data[k].requests_today = succ[k]

C5_Witness ==
  /\ lastOp.op = "record_request"
  /\ lastOp.key \in DOMAIN keys_data
  /\ succ[lastOp.key] = 2
  /\ keys_data[lastOp.key].requests_today = 2

\* C1 (as claimed): in a batch no record_request takes a credential's
\* requests_today past the daily limit of the batch's model.
C1_QuotaNeverExceeded ==
  [][\A k \in DOMAIN keys_data :
       (/\ k \in DOMAIN keys_data'
        /\ keys_data'[k].requests_today > keys_data[k].requests_today)
       => keys_data'[k].requests_today
            <= (IF model = "flash" THEN RpdFlash ELSE RpdPro)]_vars

Zeroed(r) ==
  r.requests_today = 0 /\ r.exhausted = FALSE /\ r.error_count = 0

\* C6: after reset_all_stats every known credential has requests_today = 0,
\* exhausted = FALSE and error_count = 0, and a selection among any
\* candidates that name a known credential returns one.
C6_ResetAllRestores ==
  lastOp.op = "reset_all_stats" =>
    /\ \A k \in DOMAIN keys_data : Zeroed(keys_data[k])
    /\ \A k \in DOMAIN keys_data, mdl \in MODELS :
         GetBestKey(keys_data, <<k>>, mdl, clock, clock).ret = k

C6_Witness ==
  /\ lastOp.op = "reset_all_stats"
  /\ Cardinality(DOMAIN keys_data) > 1
  /\ \E k \in lastOp.reset : keys_data[k].last_request > 0

\* the midnight that follows time t, as an ISO string
MidnightAfter(t) ==
  LET m == CHOOSE n \in (t + 1)..(t + DayLen) : n % DayLen = 0
  IN <<m \div DayLen, 0>>

TimeOf(iso) == iso[1] * DayLen + iso[2]

\* the effect of the reset check of an operation on a record r with
\* reset_time set, r2 being the record the operation leaves
ResetCheckEffect(r, r2) ==
  /\ TimeOf(r.reset_time) <= clock =>
       /\ Zeroed(r2)
       /\ r2.reset_time = MidnightAfter(clock')
       /\ r2.last_request = r.last_request
  /\ TimeOf(r.reset_time) > clock' => r2 = r

\* C7: the reset check (in get_best_key and in load_stats) zeroes a
\* credential whose reset_time has passed and sets its reset_time to the
\* next midnight; it leaves a credential whose reset_time is in the future
\* unchanged.
C7_AutomaticReset ==
  [][/\ lastOp'.op = "get_best_key" =>
          \A k \in DOMAIN keys_data :
            keys_data[k].reset_time # NoTime =>
              ResetCheckEffect(keys_data[k], keys_data'[k])
     /\ lastOp'.op = "load_stats" =>
          \A k \in DOMAIN stats_file.data :
            stats_file.data[k].reset_time # NoTime =>
              ResetCheckEffect(stats_file.data[k], keys_data'[k])]_vars

C7_Witness ==
  /\ lastOp.op = "get_best_key"
  /\ clock >= DayLen
  /\ \E k \in lastOp.reset :
       /\ keys_data[k].last_request > 0
       /\ keys_data[k].last_request < TimeTime(DayLen)

\* C8 (as claimed): the reset check zeroes a credential whose reset_time is
\* unset and sets its reset_time to the next midnight.
C8_UnsetResetZeroes ==
  [][/\ lastOp'.op = "get_best_key" =>
          \A k \in DOMAIN keys_data :
            keys_data[k].reset_time = NoTime =>
              /\ Zeroed(keys_data'[k])
              /\ keys_data'[k].reset_time = MidnightAfter(clock')
     /\ lastOp'.op = "load_stats" =>
          \A k \in DOMAIN stats_file.data :
            stats_file.data[k].reset_time = NoTime =>
              /\ Zeroed(keys_data'[k])
              /\ keys_data'[k].reset_time = MidnightAfter(clock')]_vars

\* C9: when get_best_key ends, every known credential has a reset_time,
\* which is a midnight later than the clock.
C9_ResetTimeFutureMidnight ==
  lastOp.op = "get_best_key" =>
    \A k \in DOMAIN keys_data :
      /\ keys_data[k].reset_time # NoTime
      /\ keys_data[k].reset_time[2] = 0
      /\ TimeOf(keys_data[k].reset_time) > clock

C9_Witness ==
  /\ lastOp.op = "get_best_key"
  /\ lastOp.new # {}
  /\ lastOp.unset # {}
  /\ lastOp.reset # {}

ZeroUsage(r) ==
  /\ Zeroed(r)
  /\ r.reset_time = NoTime
  /\ r.last_request = 0

\* C10: load_keys_from_file leaves every known credential's record
\* unchanged, adds a zero-usage record for each identifier of the source
\* not yet known, and adds nothing else.
C10_LoadKeysIdempotent ==
  [][lastOp'.op = "load_keys_from_file" =>
       /\ \A k \in DOMAIN keys_data :
            k \in DOMAIN keys_data' /\ keys_data'[k] = keys_data[k]
       /\ \A k \in DOMAIN keys_data' \ DOMAIN keys_data :
            ZeroUsage(keys_data'[k]) /\ k \in Candidates(lastOp'.keys_list)
       /\ Candidates(lastOp'.keys_list) \subseteq DOMAIN keys_data'
       /\ Candidates(lastOp'.keys_list) \subseteq DOMAIN keys_data
            => keys_data' = keys_data]_vars

C10_Witness ==
  /\ lastOp.op = "load_keys_from_file"
  /\ lastOp.new = {}
  /\ Len(lastOp.keys_list) > Cardinality(Candidates(lastOp.keys_list))
  /\ \E k \in Candidates(lastOp.keys_list) :
       /\ keys_data[k].requests_today > 0
       /\ keys_data[k].reset_time # NoTime
       /\ keys_data[k].error_count > 0

\* C11 (as claimed): the list load_keys_from_file returns names every
\* identifier of the source once: no identifier occurs in it twice.
C11_ReturnedListDeduplicated ==
  lastOp.op = "load_keys_from_file" =>
    \A i, j \in 1..Len(lastOp.keys_list) :
      lastOp.keys_list[i] = lastOp.keys_list[j] => i = j

PoolOps ==
  {"load_keys_from_file", "get_best_key", "record_request", "record_error",
   "reset_all_stats"}

\* C12: no pool operation removes a credential record: the known
\* credentials only grow, the stats file keeps every credential it holds,
\* the pool built from the stats file knows every credential of the file,
\* and a credential that is not among the candidates keeps its record.
C12_RecordsNeverRemoved ==
  [][/\ lastOp'.op \in PoolOps =>
          /\ DOMAIN keys_data \subseteq DOMAIN keys_data'
          /\ DOMAIN stats_file.data \subseteq DOMAIN stats_file'.data
     /\ lastOp'.op = "load_stats" =>
          /\ DOMAIN stats_file.data \subseteq DOMAIN keys_data'
          /\ stats_file' = stats_file]_vars

C12_Witness ==
  /\ lastOp.op = "get_best_key"
  /\ lastOp.keys_list # <<>>
  /\ \E k \in DOMAIN stats_file.data \ Candidates(lastOp.keys_list) :
       /\ k \in DOMAIN keys_data
       /\ keys_data[k].requests_today > 0

MinInterval(mdl) == IF mdl = "flash" THEN DelayFlash ELSE DelayPro

\* C13: get_wait_time(c, model) is 0 for a credential never used and
\* max(0, minInterval(model) - (now - the time of the last record_request
\* of c)) otherwise; record_error and get_best_key leave the wait time of
\* every credential, for every model, as it was.
C13_WaitTime ==
  [][/\ lastOp'.op = "get_wait_time" =>
          lastOp'.wait =
            IF used_at'[lastOp'.key] = NeverUsed THEN 0
            ELSE Max(0, MinInterval(lastOp'.model)
                          - (clock' - used_at'[lastOp'.key]))
     /\ lastOp'.op \in {"record_error", "get_best_key"} =>
          \A k \in Keys, mdl \in MODELS :
            GetWaitTime(keys_data', k, mdl, TimeTime(clock'))
              = GetWaitTime(keys_data, k, mdl, TimeTime(clock'))]_vars

C13_Witness ==
  /\ lastOp.op = "get_wait_time"
  /\ lastOp.model = "pro"
  /\ lastOp.wait > 0
  /\ lastOp.wait < DelayPro
  /\ keys_data[lastOp.key].error_count > 0

RECURSIVE RequestsIn(_, _)
RequestsIn(kd, S) ==
  IF S = {} THEN 0
  ELSE LET k == CHOOSE x \in S : TRUE
       IN kd[k].requests_today + RequestsIn(kd, S \ {k})

RequestsOf(S) == RequestsIn(keys_data, S)

DailyLimit(mdl) == IF mdl = "flash" THEN RpdFlash ELSE RpdPro

\* C14: on a new pool of k credentials with daily limit L, used by one
\* caller that follows every selection by record_request on the credential
\* returned, a selection returns None exactly when k*L requests are
\* recorded, and the requests_today of two credentials never differ by
\* more than 1.
C14_PoolDepletion ==
  LET pool == Candidates(api_keys)
      total == Cardinality(pool) * DailyLimit(model)
  IN /\ RequestsOf(pool) <= total
     /\ lastOp.op = "get_best_key" =>
          (lastOp.ret = NoneKey <=> RequestsOf(pool) = total)
     /\ \A a, b \in pool :
          keys_data[a].requests_today - keys_data[b].requests_today <= 1

C14_Witness ==
  /\ lastOp.op = "get_best_key"
  /\ lastOp.ret = NoneKey
  /\ model = "flash"
  /\ Cardinality(Candidates(api_keys)) = 2
  /\ RequestsOf(Candidates(api_keys)) = 2 * RpdFlash

\* the step in which the call for chunk c returns result
Returns(c, result) == tasks[c].result = "" /\ tasks'[c].result = result

\* C15: when get_best_key returns None, generate_chunk returns failure in
\* the same step, after that one selection: no remote invocation, no sleep
\* and no record_request or record_error(key, False) is added to what the
\* call had done, and no credential record changes, but for the reset_time
\* the reset check of that selection sets where it was unset and for the
\* 429 just recorded when the selection follows a 429.
C15_NoKeysFailsAtOnce ==
  [][\A c \in Chunks :
       Returns(c, "no_keys") =>
         /\ tasks'[c].pc = "failed"
         /\ tasks'[c].log =
              [tasks[c].log EXCEPT
                 !.n_sel = @ + 1,
                 !.n_429 = IF tasks[c].pc = "call" THEN @ + 1 ELSE @]
         /\ DOMAIN keys_data' = DOMAIN keys_data
         /\ tasks[c].pc # "call" => stats_file' = stats_file
         /\ \A k \in DOMAIN keys_data :
              LET r == keys_data[k]
                  r2 == keys_data'[k]
              IN /\ r2.requests_today = r.requests_today
                 /\ r2.last_request = r.last_request
                 /\ r.reset_time # NoTime => r2.reset_time = r.reset_time
                 /\ (tasks[c].pc # "call" \/ k # tasks[c].key) =>
                      /\ r2.error_count = r.error_count
                      /\ r2.exhausted = r.exhausted]_vars

C15_Witness ==
  \E c \in Chunks :
    /\ tasks[c].result = "no_keys"
    /\ tasks[c].log.n_sel = 1
    /\ \E k \in Candidates(api_keys) :
         ~keys_data[k].exhausted /\ keys_data[k].error_count > 0

\* C16 (as claimed): a 429 answer does not use up an attempt: the call
\* ends only with success, with no credential available, or with
\* MAX_RETRIES + 1 exceptions that are not 429 answers.
C16_QuotaKeepsBudget ==
  \A c \in Chunks :
    Terminal(tasks[c]) =>
      \/ tasks[c].result = "ok"
      \/ tasks[c].result = "no_keys"
      \/ tasks[c].result = "error"
           /\ tasks[c].log.n_other = MAX_RETRIES + 1

\* C17: an exception that is not a 429 answer, on an attempt that is not
\* the last, changes no credential record; the call that then succeeds
\* returns success, has made no record_error(key, False) and one
\* record_request, and the step of its success adds 1 to requests_today
\* of its credential and changes no error_count.
C17_TransientNotCounted ==
  [][\A c \in Chunks :
       /\ (tasks[c].pc \in {"call", "save"} /\ tasks'[c].pc = "backoff") =>
            /\ keys_data' = keys_data
            /\ stats_file' = stats_file
       /\ Returns(c, "ok") =>
            /\ tasks'[c].pc = "done"
            /\ tasks'[c].log.n_err = 0
            /\ tasks'[c].log.n_rec = 1
            /\ tasks'[c].log.n_other <= MAX_RETRIES
            /\ \A k \in DOMAIN keys_data :
                 /\ keys_data'[k].error_count = keys_data[k].error_count
                 /\ keys_data'[k].requests_today =
                      keys_data[k].requests_today
                        + (IF k = tasks[c].key THEN 1 ELSE 0)]_vars

C17_Witness ==
  \E c \in Chunks :
    /\ tasks[c].result = "ok"
    /\ tasks[c].log.n_other = MAX_RETRIES
    /\ tasks[c].log.n_429 = 0
    /\ tasks[c].log.n_call = MAX_RETRIES + 1
    /\ keys_data[tasks[c].key].error_count = 0

\* C18: the call that gives up after an exception that is not a 429 answer
\* on its last attempt makes record_error(key, False) once, for the
\* credential of that attempt: its error_count grows by 1, its exhausted
\* flag and every other record stay, and the call returns failure with
\* the error; a call makes no other record_error(key, False).
C18_TerminalFailureRecorded ==
  [][\A c \in Chunks :
       /\ tasks'[c].log.n_err = IF tasks'[c].result = "error" THEN 1 ELSE 0
       /\ Returns(c, "error") =>
            LET key == tasks[c].key
            IN /\ tasks[c].pc \in {"call", "save"}
               /\ tasks[c].attempt = MAX_RETRIES
               /\ tasks'[c].pc = "failed"
               /\ tasks'[c].key = key
               /\ keys_data'[key].error_count
                    = keys_data[key].error_count + 1
               /\ keys_data'[key].exhausted = keys_data[key].exhausted
               /\ \A k \in DOMAIN keys_data \ {key} :
                    keys_data'[k] = keys_data[k]
       /\ (/\ tasks[c].pc \in {"call", "save"}
           /\ tasks[c].attempt = MAX_RETRIES
           /\ tasks'[c].log.n_other > tasks[c].log.n_other)
            => Returns(c, "error")]_vars

C18_Witness ==
  \E c \in Chunks :
    /\ tasks[c].result = "error"
    /\ tasks[c].log.n_other = MAX_RETRIES + 1
    /\ keys_data[tasks[c].key].error_count = 1
    /\ ~keys_data[tasks[c].key].exhausted

\* C19: generate_chunk always returns: a call makes at most
\* MAX_RETRIES + 1 selections, remote invocations and sleeps more than
\* that many, each sleep is no longer than the longest of the rate-limit
\* delays and the retry delays, and, every remote call and save returning
\* and time passing, a call under way comes to its return.
MaxWait ==
  LET delays == {LIMITS[m].delay : m \in MODELS}
                  \cup {RETRY_DELAYS[i] : i \in DOMAIN RETRY_DELAYS}
  IN CHOOSE d \in delays : \A e \in delays : e <= d

Underway(c) == tasks[c].pc \in {"sleep", "call", "save", "backoff"}

C19_CallTerminates ==
  /\ [](\A c \in Chunks :
          /\ tasks[c].log.n_call <= MAX_RETRIES + 1
          /\ tasks[c].log.n_sel <= MAX_RETRIES + 1
          /\ tasks[c].log.n_wait <= 2 * (MAX_RETRIES + 1)
          /\ tasks[c].pc \in {"sleep", "backoff"} =>
               tasks[c].wake <= clock + MaxWait)
  /\ \A c \in Chunks : Underway(c) ~> Terminal(tasks[c])

C19_Witness ==
  \E c \in Chunks :
    /\ Terminal(tasks[c])
    /\ tasks[c].log.n_call = MAX_RETRIES + 1
    /\ tasks[c].log.n_429 > 0
    /\ tasks[c].log.n_other > 0
    /\ tasks[c].log.n_wait > MAX_RETRIES

\* C20: the call that succeeds makes record_request once, in the step in
\* which it returns success, for the credential that served the remote
\* call: that step adds 1 to the requests_today of that credential and to
\* the total over the pool; a call that returns failure has made no
\* record_request.
C20_SuccessRecordedOnce ==
  [][\A c \in Chunks :
       /\ tasks'[c].log.n_rec = IF tasks'[c].result = "ok" THEN 1 ELSE 0
       /\ Returns(c, "ok") =>
            /\ tasks[c].pc = "save"
            /\ tasks'[c].key = tasks[c].key
            /\ keys_data'[tasks[c].key].requests_today
                 = keys_data[tasks[c].key].requests_today + 1
            /\ RequestsIn(keys_data', DOMAIN keys_data')
                 = RequestsIn(keys_data, DOMAIN keys_data) + 1
            /\ stats_file'.data = keys_data']_vars

C20_Witness ==
  \E c \in Chunks :
    /\ tasks[c].result = "ok"
    /\ tasks[c].log.n_429 > 0
    /\ tasks[c].log.n_other > 0
    /\ keys_data[tasks[c].key].requests_today = 2

\* ---------------------------------------------------------------- C22
\* chunk c is inside generate_chunk
InProcess(c) == tasks[c].pc \in {"sleep", "call", "save", "backoff"}

\* C22: at every instant of a batch with max_parallel >= 1, the chunks
\* between start_chunk and complete_chunk/fail_chunk (tracker.in_progress)
\* and the chunks inside generate_chunk are at most max_parallel.
C22_ConcurrencyCap ==
  tracker # NoTracker =>
    /\ max_parallel >= 1
    /\ tracker.in_progress <= max_parallel
    /\ tracker.in_progress = Cardinality({c \in Chunks : InProcess(c)})
    /\ sem = max_parallel - tracker.in_progress

\* the cap is reached: one slot, one chunk inside generate_chunk and
\* another one waiting for the semaphore
C22_Witness ==
  /\ tracker # NoTracker
  /\ max_parallel = 1
  /\ tracker.in_progress = 1
  /\ \E c, d \in Chunks : InProcess(c) /\ tasks[d].pc = "queued"

\* ------------------------------------------- the ProgressTracker by itself
\* everything outside the tracker and what was read from it
appVars ==
  <<keys_data, stats_file, clock, api_keys, lastOp, succ, used_at, quota_hit,
    is_generating, model, sem, tasks, max_parallel, enabled_chunks, store_ok,
    loop_thread, gui_thread, loop, retry, runs>>

\* one call of a ProgressTracker method, in any order and any number up to
\* MaxCount of each
TrackStart ==
  /\ tracker.in_progress < MaxCount
  /\ tracker' = StartChunk(tracker)
  /\ lastTrack' = [op |-> "start_chunk", duration |-> 0]
  /\ UNCHANGED <<appVars, progress>>

TrackComplete(duration) ==
  /\ tracker.completed < MaxCount
  /\ tracker' = CompleteChunk(tracker, duration)
  /\ lastTrack' = [op |-> "complete_chunk", duration |-> duration]
  /\ UNCHANGED <<appVars, progress>>

TrackFail ==
  /\ tracker.failed < MaxCount
  /\ tracker' = FailChunk(tracker)
  /\ lastTrack' = [op |-> "fail_chunk", duration |-> 0]
  /\ UNCHANGED <<appVars, progress>>

TrackSkip ==
  /\ tracker.skipped < MaxCount
  /\ tracker' = SkipChunk(tracker)
  /\ lastTrack' = [op |-> "skip_chunk", duration |-> 0]
  /\ UNCHANGED <<appVars, progress>>

NextTracker ==
  \/ TrackStart
  \/ \E duration \in 0..MaxDuration : TrackComplete(duration)
  \/ TrackFail
  \/ TrackSkip

InitTracker ==
  /\ InitApp
  /\ retry = NoRetry
  /\ runs = NoRuns
  /\ ~stats_file.exists
  /\ tracker \in {NewTracker(n, clock) : n \in 0..MaxCount}

SpecTracker == InitTracker /\ [][NextTracker]_vars

\* _update_progress: the front end reads tracker.get_stats()
UpdateProgress ==
  /\ tracker # NoTracker
  /\ progress = NoStats
  /\ progress' = GetStats(tracker, clock)
  /\ UNCHANGED <<appVars, tracker, lastTrack>>

\* trackers after completed complete_chunk calls of MaxDuration each, failed
\* fail_chunk calls and skipped skip_chunk calls
TrackerStates ==
  { [total |-> n, completed |-> c, in_progress |-> 0, failed |-> f,
     skipped |-> k, start_time |-> TimeTime(0),
     chunk_times |-> [i \in 1..c |-> MaxDuration]] :
    n \in 0..MaxTotal, c \in 0..MaxTotal, f \in {0, MaxCount},
    k \in {0, MaxCount} }

InitStats ==
  /\ InitApp
  /\ retry = NoRetry
  /\ runs = NoRuns
  /\ ~stats_file.exists
  /\ tracker \in TrackerStates

SpecStats == InitStats /\ [][UpdateProgress]_vars

\* ---------------------------------------------------------------- C29
\* C29: start_chunk adds 1 to in_progress; complete_chunk adds 1 to completed
\* and appends one duration; fail_chunk adds 1 to failed; skip_chunk adds 1
\* to skipped; complete_chunk and fail_chunk take 1 from in_progress, floored
\* at 0; after any sequence of them in_progress >= 0, the number of durations
\* equals completed and total is unchanged.
C29_TrackerCounters ==
  /\ [](/\ tracker.in_progress >= 0
        /\ Len(tracker.chunk_times) = tracker.completed)
  /\ [][/\ tracker'.total = tracker.total
        /\ lastTrack'.op = "start_chunk" =>
             /\ tracker'.in_progress = tracker.in_progress + 1
             /\ tracker'.completed = tracker.completed
             /\ tracker'.failed = tracker.failed
             /\ tracker'.skipped = tracker.skipped
             /\ tracker'.chunk_times = tracker.chunk_times
        /\ lastTrack'.op = "complete_chunk" =>
             /\ tracker'.completed = tracker.completed + 1
             /\ tracker'.chunk_times =
                  Append(tracker.chunk_times, lastTrack'.duration)
             /\ tracker'.in_progress =
                  (IF tracker.in_progress = 0 THEN 0
                   ELSE tracker.in_progress - 1)
             /\ tracker'.failed = tracker.failed
             /\ tracker'.skipped = tracker.skipped
        /\ lastTrack'.op = "fail_chunk" =>
             /\ tracker'.failed = tracker.failed + 1
             /\ tracker'.in_progress =
                  (IF tracker.in_progress = 0 THEN 0
                   ELSE tracker.in_progress - 1)
             /\ tracker'.completed = tracker.completed
             /\ tracker'.skipped = tracker.skipped
             /\ tracker'.chunk_times = tracker.chunk_times
        /\ lastTrack'.op = "skip_chunk" =>
             /\ tracker'.skipped = tracker.skipped + 1
             /\ tracker'.in_progress = tracker.in_progress
             /\ tracker'.completed = tracker.completed
             /\ tracker'.failed = tracker.failed
             /\ tracker'.chunk_times = tracker.chunk_times]_vars

\* fail_chunk was called with nothing in progress, after a complete_chunk
\* and a skip_chunk, and another chunk was started since
C29_Witness ==
  /\ lastTrack.op = "start_chunk"
  /\ tracker.failed = 1
  /\ tracker.completed = 1
  /\ tracker.skipped = 1
  /\ tracker.in_progress = 1
  /\ tracker.chunk_times = <<MaxDuration>>

\* ---------------------------------------------------------------- C30
\* C30: get_stats reports pending = total - completed - failed - skipped and
\* percent = floor(100 * completed / total), 0 when total = 0, for all
\* counter values; eta is 0 whenever no duration was recorded or
\* pending <= 0.
C30_StatsAsSpecified ==
  progress # NoStats =>
    /\ progress.pending =
         tracker.total - tracker.completed - tracker.failed - tracker.skipped
    /\ progress.percent = (IF tracker.total = 0 THEN 0
                           ELSE (100 * tracker.completed) \div tracker.total)
    /\ (tracker.chunk_times = <<>> \/ progress.pending <= 0) =>
         progress.eta = <<0, "sek">>

\* ---------------------------------------------------------------- C24
\* every task of the batch in flight has returned
BatchDone ==
  /\ is_generating
  /\ tracker # NoTracker
  /\ \A c \in enabled_chunks : Terminal(tasks[c])

\* C24: a chunk the caller disabled never reaches generate_chunk (no
\* selection, no remote call) and is recorded through skip_chunk: after a
\* batch with d disabled chunks the tracker reports skipped = d.
C24_DisabledSkipped ==
  /\ is_generating =>
       \A c \in Chunks \ enabled_chunks : tasks[c] = IdleTask
  /\ BatchDone =>
       tracker.skipped = Cardinality(Chunks \ enabled_chunks)

\* ---------------------------------------------------------------- C23
\* the chunks of the batch whose task returned with pc
Marked(pc) == {c \in enabled_chunks : tasks[c].pc = pc}

\* C23: with max_parallel >= 1 and remote calls that return, the batch
\* eventually completes, and only after every submitted chunk has reached a
\* terminal state; at completion completed + failed + skipped = total,
\* in_progress = 0 and pending = 0, every chunk having been marked exactly
\* once, as completed or as failed.
C23_BatchCompletes ==
  /\ [](tracker # NoTracker =>
          /\ tracker.completed = Cardinality(Marked("done"))
          /\ tracker.failed = Cardinality(Marked("failed"))
          /\ Len(tracker.chunk_times) = tracker.completed)
  /\ [](BatchDone =>
          /\ tracker.completed + tracker.failed + tracker.skipped
               = tracker.total
          /\ tracker.in_progress = 0
          /\ GetStats(tracker, clock).pending = 0)
  /\ [][is_generating /\ ~is_generating' =>
          \A c \in enabled_chunks : Terminal(tasks[c])]_vars
  /\ (is_generating ~> ~is_generating)

\* gather is about to return: one chunk completed and the other one failed
C23_Witness ==
  /\ BatchDone
  /\ tracker.total = 2
  /\ tracker.completed = 1
  /\ tracker.failed = 1

\* ---------------------------------------------------------------- C21
\* the pcs of a generate_chunk call and the results it returns with
TaskPcs == {"idle", "queued", "sleep", "call", "save", "backoff", "done",
            "failed"}

Durable == IF stats_file.exists THEN stats_file.data ELSE <<>>

\* C27: when writes succeed, after each pool operation that changes a
\* credential record (record_request, record_error, reset_all_stats, a reset
\* made by the reset check, the insertion of a new credential) the stats
\* file equals keys_data.
C27_StoreTracksMemory ==
  [][(store_ok /\ keys_data' # keys_data) => Durable' = keys_data']_vars

\* ---------------------------------------------------------------- C28
\* C28: a failing write or read of the stats file never fails a pool
\* operation: while the file cannot be opened, record_request, record_error
\* and reset_all_stats still apply their change to keys_data completely and
\* return, and later selections go by keys_data; a pool constructed while
\* the file cannot be read starts empty.
C28_StoreFailuresSwallowed ==
  [][(~store_ok /\ lastOp = NoOp /\ lastOp' # NoOp) =>
       /\ stats_file' = stats_file
       /\ lastOp'.op = "record_request" =>
            /\ keys_data' =
                 RecordRequest(keys_data, lastOp'.key, TimeTime(clock))
            /\ lastOp'.key \in DOMAIN keys_data =>
                 /\ keys_data'[lastOp'.key].requests_today =
                      keys_data[lastOp'.key].requests_today + 1
                 /\ keys_data'[lastOp'.key].last_request = TimeTime(clock)
       /\ lastOp'.op = "record_error" =>
            /\ keys_data' =
                 RecordError(keys_data, lastOp'.key, lastOp'.is_429)
            /\ lastOp'.key \in DOMAIN keys_data =>
                 /\ keys_data'[lastOp'.key].error_count =
                      keys_data[lastOp'.key].error_count + 1
                 /\ lastOp'.is_429 => keys_data'[lastOp'.key].exhausted
       /\ lastOp'.op = "reset_all_stats" =>
            \A k \in DOMAIN keys_data :
              /\ keys_data'[k].requests_today = 0
              /\ keys_data'[k].exhausted = FALSE
              /\ keys_data'[k].error_count = 0
       /\ (lastOp'.op = "get_best_key" /\ lastOp'.ret # NoneKey) =>
            /\ lastOp'.ret \in DOMAIN keys_data'
            /\ keys_data'[lastOp'.ret].exhausted = FALSE
            /\ keys_data'[lastOp'.ret].requests_today
                 < LIMITS[lastOp'.model].rpd
       /\ lastOp'.op = "load_stats" => keys_data' = <<>>]_vars

\* get_best_key returns, by the records in memory, a credential that the
\* stats file, written before it became unwritable, has as exhausted
C28_Witness ==
  /\ ~store_ok
  /\ lastOp.op = "get_best_key"
  /\ lastOp.ret # NoneKey
  /\ lastOp.ret \in DOMAIN Durable
  /\ Durable[lastOp.ret].exhausted
  /\ ~keys_data[lastOp.ret].exhausted

\* ---------------------------------------------------------------- C25
\* the step is loop.stop() or the end of the stopped loop
StopStep ==
  \/ loop = "running" /\ loop' = "stopping"
  \/ loop = "stopping" /\ loop' = "none"

C26_MutualExclusion ==
  /\ ~(loop_thread.pc # "idle" /\ gui_thread.pc # "idle")
  /\ (loop_thread.pc = "idle" /\ gui_thread.pc = "idle") =>
       \A k \in DOMAIN keys_data : keys_data[k].requests_today = succ[k]

\* ---------------------------------------------------------------- C39
\* C39: in every reachable state of a batch the tracker has completed +
\* failed + in_progress <= total, pending >= 0 and skipped = 0, where total
\* is the number of enabled chunks; each chunk counts in in_progress at most
\* once, and in exactly one of completed and failed once it has returned.
C39_TrackerInBatch ==
  tracker # NoTracker =>
    /\ tracker.total = Cardinality(enabled_chunks)
    /\ tracker.completed + tracker.failed + tracker.in_progress
         <= tracker.total
    /\ tracker.total - tracker.completed - tracker.failed - tracker.skipped
         >= 0
    /\ tracker.skipped = 0
    /\ tracker.in_progress
         = Cardinality({c \in enabled_chunks : InProcess(c)})
    /\ tracker.completed + tracker.failed
         = Cardinality({c \in enabled_chunks : Terminal(tasks[c])})
    /\ tracker.completed = Cardinality(Marked("done"))
    /\ \A c \in Chunks \ enabled_chunks : tasks[c].pc = "idle"

\* one chunk of two has completed and the other one is in progress
C39_Witness ==
  /\ tracker # NoTracker
  /\ tracker.total = 2
  /\ tracker.completed = 1
  /\ tracker.in_progress = 1
  /\ tracker.failed = 0

\* ---------------------------------------------------------------- C35
\* C35: the duration passed to complete_chunk for a chunk is the chunk's own
\* processing time, from its start_chunk to its completion, however late in
\* the batch the chunk ran.
C35_OwnDuration ==
  [][\A c \in Chunks :
       (tasks[c].pc # "done" /\ tasks'[c].pc = "done"
        /\ tracker # NoTracker) =>
         /\ Len(tracker'.chunk_times) = Len(tracker.chunk_times) + 1
         /\ tracker'.chunk_times[Len(tracker'.chunk_times)]
              = TimeTime(clock') - tasks'[c].log.start]_vars

\* ---------------------------------------------------------------- C34
\* C34: record_error(c, q) adds exactly 1 to error_count of c for q true and
\* q false, sets exhausted only when q is true and leaves requests_today and
\* last_request as they are; record_request(c) leaves error_count and
\* exhausted as they are; neither changes another credential; error_count
\* decreases only through an automatic reset or reset_all_stats.
C34_RecordFrames ==
  [][(lastOp = NoOp /\ lastOp' # NoOp) =>
       /\ lastOp'.op \in {"record_error", "record_request"} =>
            /\ DOMAIN keys_data' = DOMAIN keys_data
            /\ \A k \in DOMAIN keys_data \ {lastOp'.key} :
                 keys_data'[k] = keys_data[k]
       /\ (lastOp'.op = "record_error" /\ lastOp'.key \in DOMAIN keys_data) =>
            /\ keys_data'[lastOp'.key].error_count
                 = keys_data[lastOp'.key].error_count + 1
            /\ keys_data'[lastOp'.key].exhausted
                 = (lastOp'.is_429 \/ keys_data[lastOp'.key].exhausted)
            /\ keys_data'[lastOp'.key].requests_today
                 = keys_data[lastOp'.key].requests_today
            /\ keys_data'[lastOp'.key].last_request
                 = keys_data[lastOp'.key].last_request
            /\ keys_data'[lastOp'.key].reset_time
                 = keys_data[lastOp'.key].reset_time
       /\ (lastOp'.op = "record_request"
           /\ lastOp'.key \in DOMAIN keys_data) =>
            /\ keys_data'[lastOp'.key].error_count
                 = keys_data[lastOp'.key].error_count
            /\ keys_data'[lastOp'.key].exhausted
                 = keys_data[lastOp'.key].exhausted
       /\ \A k \in DOMAIN keys_data \cap DOMAIN keys_data' :
            keys_data'[k].error_count < keys_data[k].error_count =>
              \/ lastOp'.op = "reset_all_stats"
              \/ k \in lastOp'.reset]_vars

\* an error that is not a 429 was recorded for a credential that stays
\* selectable, next to another credential with a record
C34_Witness ==
  /\ lastOp.op = "record_error"
  /\ ~lastOp.is_429
  /\ lastOp.key \in DOMAIN keys_data
  /\ keys_data[lastOp.key].error_count = 1
  /\ ~keys_data[lastOp.key].exhausted
  /\ DOMAIN keys_data # {lastOp.key}

\* ---------------------------------------------------------------- C36
\* the record get_best_key reads for the candidate at place i of the list:
\* a credential first seen by this call has its fresh record; one that
\* comes after such an insertion is read after the reset check the
\* insertion runs; the others are read after the reset check at entry
SeenAt(keys_list, i) ==
  IF \E j \in 1..i : keys_list[j] \notin DOMAIN keys_data
  THEN keys_data'[keys_list[i]]
  ELSE CheckKeyReset(keys_data[keys_list[i]], clock)

\* the places of the list whose credential passes the filter for the model
PassingAt(keys_list, mdl) ==
  {i \in 1..Len(keys_list) :
     /\ ~SeenAt(keys_list, i).exhausted
     /\ SeenAt(keys_list, i).requests_today < LIMITS[mdl].rpd}

\* the passing places that no passing place beats: fewer errors first,
\* then fewer requests today (which is more remaining quota)
BestAt(keys_list, mdl) ==
  {i \in PassingAt(keys_list, mdl) :
     \A j \in PassingAt(keys_list, mdl) :
       \/ SeenAt(keys_list, i).error_count < SeenAt(keys_list, j).error_count
       \/ /\ SeenAt(keys_list, i).error_count
              = SeenAt(keys_list, j).error_count
          /\ SeenAt(keys_list, i).requests_today
              <= SeenAt(keys_list, j).requests_today}

\* C36: get_best_key is deterministic with a positional tie-break: among
\* the passing candidates that are equal on error_count, remaining quota
\* and requests_today it returns the one that comes first in the list, so
\* equal pool states and equal lists give the same credential.
C36_FirstOfEquals ==
  [][(lastOp = NoOp /\ lastOp'.op = "get_best_key") =>
       IF BestAt(lastOp'.keys_list, lastOp'.model) = {}
       THEN lastOp'.ret = NoneKey
       ELSE \E i \in BestAt(lastOp'.keys_list, lastOp'.model) :
              /\ lastOp'.ret = lastOp'.keys_list[i]
              /\ \A j \in BestAt(lastOp'.keys_list, lastOp'.model) :
                   i <= j]_vars

\* two candidates with equal records, the second key listed first, and
\* get_best_key returned the one listed first
C36_Witness ==
  /\ lastOp.op = "get_best_key"
  /\ lastOp.keys_list = <<"k2", "k1">>
  /\ lastOp.ret = "k2"
  /\ lastOp.new = {}
  /\ lastOp.reset = {}
  /\ keys_data["k1"].requests_today = keys_data["k2"].requests_today
  /\ keys_data["k1"].error_count = keys_data["k2"].error_count
  /\ keys_data["k1"].requests_today > 0
  /\ ~keys_data["k1"].exhausted

\* ------------------------------------------- served calls, failing saves
\* The single-chunk call where every remote call returns audio: the only
\* exceptions are those of _save_audio_smart.
CallNextServed(c) ==
  \/ TaskWake(c)
  \/ TaskCallReturns(c)
  \/ TaskSaveReturns(c)
  \/ TaskSaveFails(c)
  \/ \E now2 \in {clock, clock + 1} : TaskRetry(c, now2)

UnitNextServed(c) ==
  \/ \E now2 \in {clock, clock + 1} : UnitBegin(c, now2)
  \/ CallNextServed(c) /\ UNCHANGED <<sem, tracker>>
  \/ UnitEnd(c)

NextServed ==
  \/ TickUnit
  \/ \E file \in KeyFilesBatch : LoadApiKeys(file)
  \/ \E mdl \in MODELS : ModelChange(mdl)
  \/ AllIdle /\ ResetKeysStats
  \/ \E c \in Chunks :
       UnitNextServed(c) /\ (clock' = clock \/ clock' <= MaxClockUnit)

SpecServed == InitUnit /\ [][NextServed]_vars

\* ---------------------------------------------------------------- C38
\* C38: record_request is applied only after the audio file has been
\* saved: when the remote call returned audio and the save raises, the
\* attempt is handled as an other error (a backoff and a retry, or on the
\* last attempt record_error(key, False) and the failure), and neither
\* requests_today nor last_request of the key is updated for that call.
C38_RecordAfterSave ==
  [][\A c \in Chunks :
       /\ tasks'[c].log.n_rec > tasks[c].log.n_rec =>
            tasks[c].pc = "save" /\ tasks'[c].pc = "done"
       /\ (tasks[c].pc = "save" /\ tasks'[c].pc \notin {"save", "done"}) =>
            /\ tasks'[c].log.n_rec = tasks[c].log.n_rec
            /\ tasks'[c].log.n_other = tasks[c].log.n_other + 1
            /\ DOMAIN keys_data' = DOMAIN keys_data
            /\ \A k \in DOMAIN keys_data :
                 /\ keys_data'[k].requests_today = keys_data[k].requests_today
                 /\ keys_data'[k].last_request = keys_data[k].last_request
            /\ IF tasks[c].attempt < MAX_RETRIES
               THEN /\ tasks'[c].pc = "backoff"
                    /\ tasks'[c].wake > clock
                    /\ keys_data' = keys_data
               ELSE /\ tasks'[c].pc = "failed"
                    /\ tasks'[c].result = "error"
                    /\ tasks'[c].log.n_err = tasks[c].log.n_err + 1
                    /\ tasks[c].key \in DOMAIN keys_data =>
                         keys_data'[tasks[c].key].error_count
                           = keys_data[tasks[c].key].error_count + 1]_vars

\* a call whose remote calls were all served and whose saves all raised:
\* it failed on the last attempt and its key was never counted
C38_Witness ==
  \E c \in Chunks :
    /\ tasks[c].pc = "failed"
    /\ tasks[c].result = "error"
    /\ tasks[c].log.n_call = MAX_RETRIES + 1
    /\ tasks[c].log.n_other = MAX_RETRIES + 1
    /\ tasks[c].log.n_rec = 0
    /\ tasks[c].key \in DOMAIN keys_data
    /\ keys_data[tasks[c].key].requests_today = 0
    /\ keys_data[tasks[c].key].last_request = 0
    /\ keys_data[tasks[c].key].error_count = 1

\* ---------------------------------------------------------------- C37
\* C37: a failure other than 429 does not rotate the key: the failures
\* before the last attempt change no record, so when nothing else changes
\* the pool and no reset is due, the retry selects the same key again; a
\* call can spend all its attempts on one failing key while another key
\* without errors is available.
C37_RetrySameKey ==
  [][\A c \in Chunks :
       (/\ tasks[c].pc = "backoff"
        /\ tasks'[c].pc # "backoff"
        /\ CheckAllResets(keys_data, clock) = keys_data) =>
         /\ tasks'[c].pc \in {"sleep", "call"}
         /\ tasks'[c].key = tasks[c].key
         /\ tasks'[c].attempt = tasks[c].attempt + 1
         /\ keys_data' = keys_data]_vars

\* a call that failed after MAX_RETRIES + 1 remote calls, none answered
\* 429, while another key of the list has no errors and quota left
C37_Witness ==
  \E c \in Chunks :
    /\ tasks[c].pc = "failed"
    /\ tasks[c].result = "error"
    /\ tasks[c].log.n_sel = MAX_RETRIES + 1
    /\ tasks[c].log.n_call = MAX_RETRIES + 1
    /\ tasks[c].log.n_other = MAX_RETRIES + 1
    /\ tasks[c].log.n_429 = 0
    /\ \E i \in DOMAIN api_keys :
         /\ api_keys[i] # tasks[c].key
         /\ api_keys[i] \in DOMAIN keys_data
         /\ ~keys_data[api_keys[i]].exhausted
         /\ keys_data[api_keys[i]].error_count = 0
         /\ keys_data[api_keys[i]].requests_today < LIMITS[model].rpd

\* ------------------------------------------------- the attempt loop
\* The loop `for attempt in range(Config.MAX_RETRIES + 1)` of
\* generate_chunk under any MAX_RETRIES and any non-empty RETRY_DELAYS,
\* with a key always there: pc is "try" while the remote call or the save
\* of the attempt is under way, "backoff" in asyncio.sleep(delay), "done"
\* after the successful return and "failed" after the other returns.
MaxRetries == 3
MaxDelays == 2
MaxDelay == 2

RECURSIVE DelayLists(_)
DelayLists(n) ==
  IF n = 0 THEN {<<>>}
  ELSE {Append(s, d) : s \in DelayLists(n - 1), d \in 1..MaxDelay}

RetryConfigs ==
  {[pc |-> "try", max_retries |-> m, retry_delays |-> s, attempt |-> 0,
    delay |-> 0] :
     m \in 0..MaxRetries,
     s \in UNION {DelayLists(n) : n \in 1..MaxDelays}}

loopFrame ==
  <<keys_data, stats_file, clock, api_keys, lastOp, succ, used_at, quota_hit,
    is_generating, model, sem, tasks, tracker, progress, lastTrack,
    max_parallel, enabled_chunks, store_ok, loop_thread, gui_thread, loop,
    runs>>

\* the attempt returns the file
RetryReturns ==
  /\ retry.pc = "try"
  /\ retry' = [retry EXCEPT !.pc = "done"]
  /\ UNCHANGED loopFrame

\* except ResourceExhausted: continue, with no sleep
Retry429 ==
  /\ retry.pc = "try"
  /\ retry' = IF retry.attempt + 1 > retry.max_retries
              THEN [retry EXCEPT !.pc = "failed"]
              ELSE [retry EXCEPT !.attempt = @ + 1]
  /\ UNCHANGED loopFrame

\* except Exception: the sleep before the retry, or the return
RetryRaises ==
  /\ retry.pc = "try"
  /\ retry' = IF retry.attempt < retry.max_retries
              THEN [retry EXCEPT
                      !.pc = "backoff",
                      !.delay = RetryDelay(retry.attempt, retry.retry_delays)]
              ELSE [retry EXCEPT !.pc = "failed"]
  /\ UNCHANGED loopFrame

\* asyncio.sleep(delay) is over: the next attempt
RetryWakes ==
  /\ retry.pc = "backoff"
  /\ retry' = [retry EXCEPT !.pc = "try", !.attempt = @ + 1]
  /\ UNCHANGED loopFrame

NextBackoff ==
  \/ RetryReturns
  \/ Retry429
  \/ RetryRaises
  \/ RetryWakes

InitBackoff ==
  /\ InitApp
  /\ ~stats_file.exists
  /\ tracker = NoTracker
  /\ retry \in RetryConfigs
  /\ runs = NoRuns

SpecBackoff == InitBackoff /\ [][NextBackoff]_vars

\* ---------------------------------------------------------------- C33
\* C33: after a failure other than 429 on attempt i (from 0) with attempts
\* left, the call sleeps exactly delays[i] when i is within the list and
\* the last delay of the list otherwise, for every MAX_RETRIES and every
\* non-empty list of delays; there is no backoff sleep after the last
\* attempt or after a 429.
C33_BackoffSchedule ==
  [][/\ (retry.pc = "try" /\ retry'.pc = "backoff") =>
          /\ retry.attempt < retry.max_retries
          /\ retry'.attempt = retry.attempt
          /\ \E i \in DOMAIN retry.retry_delays :
               /\ retry'.delay = retry.retry_delays[i]
               /\ \/ i = retry.attempt + 1
                  \/ /\ i = Len(retry.retry_delays)
                     /\ retry.attempt >= Len(retry.retry_delays)
     /\ (retry.pc = "try" /\ retry.attempt >= retry.max_retries) =>
          retry'.pc \in {"done", "failed"} /\ retry'.delay = retry.delay
     /\ (retry.pc = "try" /\ retry'.pc = "try") =>
          retry'.attempt = retry.attempt + 1 /\ retry'.delay = retry.delay
     /\ retry'.attempt <= retry.max_retries]_vars

\* a sleep of the last delay of a two-element list after the third
\* attempt failed, the first delay being another one
C33_Witness ==
  /\ retry.pc = "backoff"
  /\ retry.attempt = 2
  /\ Len(retry.retry_delays) = 2
  /\ retry.retry_delays[1] # retry.retry_delays[2]
  /\ retry.delay = retry.retry_delays[2]
  /\ retry.max_retries = 3

\* ------------------------------------------ get_key_stats, get_total_stats
\* int((used / limit) * 100) if limit > 0 else 0, in float arithmetic
Percent(used, limit) ==
  IF limit > 0
  THEN FloatInt(FloatMulInt(FloatDivInt(used, limit), 100))
  ELSE 0

\* the tuple (used, remaining, limit, percent, exhausted)
GetKeyStats(kd, key, mdl) ==
  IF key \notin DOMAIN kd
  THEN [used |-> 0, remaining |-> 0, limit |-> 0, percent |-> 0,
        exhausted |-> FALSE]
  ELSE LET limit == LIMITS[mdl].rpd
           stats == kd[key]
       IN IF stats.exhausted
          THEN [used |-> limit, remaining |-> 0, limit |-> limit,
                percent |-> 100, exhausted |-> TRUE]
          ELSE [used |-> stats.requests_today,
                remaining |-> limit - stats.requests_today,
                limit |-> limit,
                percent |-> Percent(stats.requests_today, limit),
                exhausted |-> FALSE]

\* the loop of get_total_stats over keys_list: total_used, active_keys and
\* exhausted_keys
RECURSIVE CountKeys(_, _, _)
CountKeys(kd, keys_list, limit) ==
  IF keys_list = <<>>
  THEN [total_used |-> 0, active_keys |-> 0, exhausted_keys |-> 0]
  ELSE LET n == Len(keys_list)
           key == keys_list[n]
           acc == CountKeys(kd, SubSeq(keys_list, 1, n - 1), limit)
       IN IF key \in DOMAIN kd
          THEN IF kd[key].exhausted
               THEN [acc EXCEPT !.total_used = @ + limit,
                                !.exhausted_keys = @ + 1]
               ELSE [acc EXCEPT !.total_used = @ + kd[key].requests_today,
                                !.active_keys = @ + 1]
          ELSE [acc EXCEPT !.active_keys = @ + 1]

GetTotalStats(kd, keys_list, mdl) ==
  LET limit == LIMITS[mdl].rpd
      total_limit == limit * Len(keys_list)
      acc == CountKeys(kd, keys_list, limit)
  IN [total_keys |-> Len(keys_list),
      active_keys |-> acc.active_keys,
      exhausted_keys |-> acc.exhausted_keys,
      total_used |-> acc.total_used,
      total_remaining |-> total_limit - acc.total_used,
      total_limit |-> total_limit,
      percent |-> Percent(acc.total_used, total_limit)]

\* ---------------------------------------------------------------- C31
\* C31: get_total_stats over a list counts each exhausted key as fully
\* used (the daily limit) and each other key by its requests_today, and
\* has active_keys + exhausted_keys = total_keys, total_used +
\* total_remaining = total_limit = limit * total_keys, 0 <= total_remaining
\* and percent <= 100 in every state the pool's operations reach;
\* get_key_stats of an exhausted key reports used = limit, remaining = 0
\* and percent = 100.
C31_TotalsWithinLimit ==
  \A keys_list \in CandidateLists, mdl \in MODELS :
    LET t == GetTotalStats(keys_data, keys_list, mdl)
    IN /\ t.active_keys + t.exhausted_keys = t.total_keys
       /\ t.total_used + t.total_remaining = t.total_limit
       /\ t.total_limit = LIMITS[mdl].rpd * t.total_keys
       /\ t.exhausted_keys =
            Cardinality({i \in DOMAIN keys_list :
                           /\ keys_list[i] \in DOMAIN keys_data
                           /\ keys_data[keys_list[i]].exhausted})
       /\ 0 <= t.total_remaining
       /\ t.percent <= 100
       /\ \A k \in DOMAIN keys_data :
            keys_data[k].exhausted =>
              LET st == GetKeyStats(keys_data, k, mdl)
              IN /\ st.used = st.limit
                 /\ st.remaining = 0
                 /\ st.percent = 100

\* ---------------------------------------------------------------- C32
\* C32: the spacing of calls is best-effort under concurrency.  With
\* max_parallel = 1 every remote call on a key starts at least the delay
\* of the model after the last record_request on that key, and no two
\* calls are in flight together; with max_parallel >= 2 two tasks can get
\* the same key, both read get_wait_time before either record_request
\* updates last_request, and both start their remote call less than the
\* delay apart (the state of C32_Witness).
C32_SpacedWhenSequential ==
  [][max_parallel = 1 =>
       /\ Cardinality({c \in Chunks : tasks'[c].pc = "call"}) <= 1
       /\ \A c \in Chunks :
            (/\ tasks[c].pc # "call"
             /\ tasks'[c].pc = "call"
             /\ tasks'[c].key \in DOMAIN keys_data') =>
              TimeTime(clock') - keys_data'[tasks'[c].key].last_request
                >= LIMITS[model'].delay]_vars

\* two tasks of a batch of two slots in their remote call with the same
\* key, each on its first attempt and without a sleep, so that each call
\* began when its task began, less than the delay apart, and neither has
\* called record_request
C32_Witness ==
  /\ max_parallel = 2
  /\ tasks[1].pc = "call"
  /\ tasks[2].pc = "call"
  /\ tasks[1].key = tasks[2].key
  /\ \A c \in {1, 2} :
       /\ tasks[c].log.n_sel = 1
       /\ tasks[c].log.n_wait = 0
       /\ tasks[c].log.n_rec = 0
  /\ tasks[2].log.start - tasks[1].log.start < LIMITS[model].delay
  /\ tasks[1].log.start - tasks[2].log.start < LIMITS[model].delay

\* ------------------------------------------------- start, stop and start
\* _start_generation and _run_generation as the two threads run them: the
\* front end sets is_generating and starts the thread; the thread makes
\* self.loop and runs the batch on it.  A batch can be requested while the
\* loop of a stopped batch has not ended, because _stop_generation has
\* set is_generating False already.  The chunks of the new batch are other
\* chunks than those the stopped loop holds (the operator has changed the
\* checkboxes), and one stopped loop and one waiting thread at most are
\* followed.
runFrame ==
  <<keys_data, stats_file, clock, api_keys, lastOp, succ, used_at, quota_hit,
    model, sem, tasks, tracker, progress, lastTrack, max_parallel,
    enabled_chunks, store_ok, loop_thread, gui_thread, loop, retry>>

\* _start_generation
RequestStart ==
  /\ api_keys # <<>>
  /\ ~is_generating
  /\ ~runs.spawned
  /\ ~runs.stale
  /\ is_generating' = TRUE
  /\ runs' = [runs EXCEPT !.spawned = TRUE]
  /\ UNCHANGED runFrame

\* the tasks of a stopped loop that are past the semaphore
InFlight(chunks) ==
  {c \in chunks : tasks[c].pc \notin {"idle", "queued", "done", "failed"}}

\* _run_generation up to gather: self.loop = asyncio.new_event_loop(), and
\* _generate_all_chunks makes the tracker, the semaphore and the tasks
RunBegins(mdl, parallel, enabled) ==
  /\ runs.spawned
  /\ loop \in {"none", "stopping"}
  /\ loop = "stopping" => mdl = model /\ enabled \cap enabled_chunks = {}
  /\ loop' = "running"
  /\ runs' = [spawned |-> FALSE,
              stale |-> loop = "stopping",
              chunks |-> IF loop = "stopping" THEN InFlight(enabled_chunks)
                         ELSE {}]
  /\ enabled_chunks' = enabled
  /\ IF enabled = {}
     THEN /\ tasks' = [c \in Chunks |->
                         IF loop = "stopping" /\ c \in InFlight(enabled_chunks)
                         THEN tasks[c] ELSE IdleTask]
          /\ UNCHANGED <<tracker, model, max_parallel, sem>>
     ELSE /\ tracker' = NewTracker(Cardinality(enabled), clock)
          /\ model' = mdl
          /\ max_parallel' = parallel
          /\ sem' = parallel
          /\ tasks' = [c \in Chunks |->
                         IF c \in enabled
                         THEN AtSuspension("queued", NoneKey, 0, 0, NewLog)
                         ELSE IF /\ loop = "stopping"
                                 /\ c \in InFlight(enabled_chunks)
                              THEN tasks[c]
                              ELSE IdleTask]
  /\ UNCHANGED <<api_keys, is_generating, progress, lastTrack, store_ok,
                 loop_thread, gui_thread, retry>>
  /\ UNCHANGED poolVars

\* a task of the stopped loop goes on: loop.stop() from the front-end
\* thread ends the loop only after an event has woken it
StaleNext(c) ==
  /\ runs.stale
  /\ c \in runs.chunks
  /\ CallNext(c)
  /\ UNCHANGED <<sem, tracker>>
  /\ clock' <= MaxClock
  /\ tasks'[c].wake <= MaxClock

\* the finally of the stopped loop's thread while self.loop is the newer
\* loop: self.loop.close() raises on a running loop, and the assignment
\* of is_generating after it is not reached
StaleStopped ==
  /\ runs.stale
  /\ is_generating' = IF loop = "running" THEN is_generating ELSE FALSE
  /\ tasks' = [c \in Chunks |-> IF c \in runs.chunks THEN IdleTask
                                ELSE tasks[c]]
  /\ runs' = [runs EXCEPT !.stale = FALSE, !.chunks = {}]
  /\ UNCHANGED <<api_keys, model, sem, tracker, progress, lastTrack,
                 max_parallel, enabled_chunks, store_ok, loop_thread,
                 gui_thread, loop, retry>>
  /\ UNCHANGED poolVars

NextRestart ==
  \/ Tick
  \/ \E file \in KeyFilesBatch : LoadApiKeys(file)
  \/ clock <= MaxClockRun /\ RequestStart
  \/ \E mdl \in MODELS, parallel \in 1..MaxParallel,
        enabled \in SUBSET Chunks :
       RunBegins(mdl, parallel, enabled)
  \/ \E c \in Chunks \ runs.chunks : TaskNext(c)
  \/ \E c \in Chunks : StaleNext(c)
  \/ ~runs.stale /\ GenerationComplete
  \/ ~runs.spawned /\ ~runs.stale /\ StopGeneration
  \/ RunStopped
  \/ StaleStopped

SpecRestart == InitBatch /\ [][NextRestart]_vars

\* ---------------------------------------------------------------- C40
\* C40: at most one batch drives the pool at a time: while is_generating
\* is true another start is refused, after any sequence of start, stop and
\* start there are never two batch loops with tasks under way on the same
\* pool, and the cleanup of a stopped batch does not set is_generating
\* False while a newer batch runs (a running batch has is_generating True).
C40_OneBatchAtATime ==
  /\ ~(/\ runs.stale
        /\ loop = "running"
        /\ InFlight(runs.chunks) # {}
        /\ InFlight(enabled_chunks) # {})
  /\ loop = "running" => is_generating

====
